---- MODULE Spec2Model ----
(***************************************************************************)
(* SmartBin host side: the line-oriented serial protocol and the chunked   *)
(* image reassembly of smartbin_pyserial_protocol.py, with the GUI         *)
(* subclass (smartbin_gui.py, GUIProtocol) and the Flutter engine          *)
(* (smartbin_flutter/lib/scripts/engine.py) and its BluetoothModule        *)
(* (smartbin_flutter/lib/scripts/modules/bluetooth_module.py) as variants  *)
(* of the same state machine.                                              *)
(*                                                                         *)
(* A text line is a sequence of one-character strings, so that slicing,    *)
(* strip(), split() and int() are computed the way Python computes them.   *)
(* A byte string is a sequence of integers in 0..255.                      *)
(***************************************************************************)
EXTENDS Integers, Sequences, FiniteSets, TLC

VARIABLES
    variant,            \* which implementation runs: "pyserial", "gui", "engine", "module",
                        \* "simple" (smartbin_simple_protocol.py, which reads a pipe),
                        \* "daemon" (smartbin_laptop_daemon.py)
    ser,                \* self.ser: "none" (None), "open", "closed"
    running,            \* self.running
    connected,          \* self.connected
    waiting_for_image,  \* self.waiting_for_image
    image_metadata,     \* self.image_metadata: key -> value (both text)
    image_parts,        \* self.image_parts: part number -> base64 text
    expected_parts,     \* self.expected_parts
    rdPc,               \* reader thread: "none","loop","readline","process","write","classify",
                        \* "exited" (loop left, BluetoothModule's disconnect call ahead),"stopped"
    exitCause,          \* why the reader loop ended: "none","flag","io","exception"
    raw,                \* what readline() returned for the current line, decoded
    line,               \* the stripped line handed to _process_line
    shown,              \* what _process_line printed for the line: <<>> or <<record>>
    pend,               \* reader's message inside write+flush: <<>> or <<[msg, then]>>
    sent,               \* lines written to the transport since the reader took its line
    decoded,            \* <<>> or <<bytes>>: what b64decode returned for the current line
    reported,           \* the image was handed off / saved / reported as received
    mainPc,             \* main (GUI / command) thread: "new","run","write","join","done"
    mainMsg,            \* the line the main thread is writing
    sendResult,         \* <<>> or <<b>>: what the last call of _send_message returned
    orphan,             \* a reader thread of an earlier connection that outlived its join:
                        \* "none", "own" (it works on an abandoned protocol object),
                        \* "shared" (it works on the state the new reader works on)
    script,             \* harness: lines still to be handed to _process_line
    srcBytes,           \* harness: the bytes B whose encoding the script carries
    padded,             \* harness: the script carries the '=' padding of the encoding
    order,              \* harness: the part numbers of the PA frames, in sending order
    wire,               \* transport: characters the device has still to send
    rxbuf,              \* transport: characters received by the port and not yet read
    lineBuf,            \* the characters readline() has collected so far
    eof,                \* transport: the far end of the pipe has been closed
    initialized,        \* BluetoothModule._initialized   (these two are followed by the
    rfcomm_bound,       \* BluetoothModule._rfcomm_bound   steps of SpecModule only)
    gui_running,        \* SmartBinGUI.running             (the fields of the window,
    gui_connected,      \* SmartBinGUI.connected            followed by the steps of
    auto_reconnect,     \* SmartBinGUI.auto_reconnect       SpecReconnect only)
    reconnect_attempts, \* SmartBinGUI.reconnect_attempts
    delay,              \* the delay _attempt_reconnection computed last, in seconds
    timer,              \* seconds until the scheduled _attempt_reconnection runs; -1: none
    buffer,             \* BluetoothModule._buffer / state.bluetooth_buffer: the logged lines
    buffer_copy,        \* get_buffer's local between copy() and clear(): <<>> or <<lines>>
    got,                \* harness: the lines the get-buffer calls have returned so far
    logged,             \* harness: the lines the reader thread has appended so far
    sock,               \* SmartBinDaemon.sock: "none" (None), "open", "closed"
    daemonPc,           \* SmartBinDaemon: where its main, processing and communication threads stand
    message_queue,      \* self.message_queue: SmartBinDaemon's holds the types of the
                        \* messages received, SmartBinSimpleProtocol's the lines read
    sockWrites,         \* the writes on the current socket since a message was begun
                        \* with no other under way, in order: [thread, part]
    taken,              \* harness: the lines the pipe reader has put into message_queue, in order
    handled             \* harness: the lines the main loop has taken from message_queue, in order

\* SmartBinGUI.__init__: the window before any connection
GuiIdle ==
    /\ gui_running = FALSE
    /\ gui_connected = FALSE
    /\ auto_reconnect = TRUE
    /\ reconnect_attempts = 0
    /\ delay = 0
    /\ timer = -1

\* BluetoothModule._buffer = [] / EngineState.bluetooth_buffer = []: nothing
\* logged, no get-buffer call under way
LogsIdle ==
    /\ buffer = <<>>
    /\ buffer_copy = <<>>
    /\ got = <<>>
    /\ logged = <<>>

\* the threads of SmartBinDaemon: the caller of start() running _main_loop,
\* processing_thread and comm_thread
Threads == {"main", "proc", "comm"}

\* SmartBinDaemon.__init__: no socket, nothing received, no thread started
DaemonIdle ==
    /\ sock = "none"
    /\ daemonPc = [t \in Threads |-> "none"]
    /\ message_queue = <<>>
    /\ sockWrites = <<>>

\* SmartBinSimpleProtocol.__init__: nothing read, nothing handled
FifoIdle ==
    /\ taken = <<>>
    /\ handled = <<>>

session == <<waiting_for_image, image_metadata, image_parts, expected_parts>>
stream == <<wire, rxbuf, lineBuf, eof>>
module == <<initialized, rfcomm_bound>>
gui == <<gui_running, gui_connected, auto_reconnect, reconnect_attempts, delay, timer>>
logs == <<buffer, buffer_copy, got, logged>>
daemon == <<sock, daemonPc, message_queue, sockWrites>>
fifo == <<taken, handled>>
harness == <<script, srcBytes, padded, order, wire, rxbuf, lineBuf, eof, initialized,
          rfcomm_bound, gui_running, gui_connected, auto_reconnect, reconnect_attempts,
          delay, timer,
          buffer, buffer_copy, got, logged,
          sock, daemonPc, message_queue, sockWrites,
          taken, handled>>
vars == <<variant, ser, running, connected, waiting_for_image, image_metadata,
          image_parts, expected_parts, rdPc, exitCause, raw, line, shown, pend,
          sent, decoded, reported, mainPc, mainMsg, sendResult, orphan,
          script, srcBytes, padded, order, wire, rxbuf, lineBuf, eof, initialized,
          rfcomm_bound, gui_running, gui_connected, auto_reconnect, reconnect_attempts,
          delay, timer,
          buffer, buffer_copy, got, logged,
          sock, daemonPc, message_queue, sockWrites,
          taken, handled>>

----------------------------------------------------------------------------
(* Text helpers: Python str operations on sequences of characters.         *)

\* str.strip() with no argument removes ASCII whitespace at both ends.
Whitespace == {" ", "\t", "\n", "\r"}

RECURSIVE LStrip(_)
LStrip(s) ==
    IF s # <<>> /\ Head(s) \in Whitespace THEN LStrip(Tail(s)) ELSE s

RECURSIVE RStrip(_)
RStrip(s) ==
    IF s # <<>> /\ s[Len(s)] \in Whitespace
    THEN RStrip(SubSeq(s, 1, Len(s) - 1))
    ELSE s

Strip(s) == RStrip(LStrip(s))

\* str.startswith
StartsWith(s, p) == Len(s) >= Len(p) /\ SubSeq(s, 1, Len(p)) = p

\* index of the first occurrence of character c in s, 0 when absent (str.find + 1)
RECURSIVE FindFrom(_, _, _)
FindFrom(s, c, i) ==
    IF i > Len(s) THEN 0
    ELSE IF s[i] = c THEN i
    ELSE FindFrom(s, c, i + 1)

Find(s, c) == FindFrom(s, c, 1)

\* str.split(c): the pieces between the occurrences of c (always at least one piece)
RECURSIVE Split(_, _)
Split(s, c) ==
    LET k == Find(s, c) IN
    IF k = 0 THEN <<s>>
    ELSE <<SubSeq(s, 1, k - 1)>> \o Split(SubSeq(s, k + 1, Len(s)), c)

Digits == <<"0", "1", "2", "3", "4", "5", "6", "7", "8", "9">>
IsDigit(c) == \E i \in 1..Len(Digits) : Digits[i] = c
DigitVal(c) == (CHOOSE i \in 1..Len(Digits) : Digits[i] = c) - 1

\* digits with single underscores between them, as int() accepts ("1_0" is 10)
RECURSIVE DigitsOk(_, _)
DigitsOk(s, prevDigit) ==
    IF s = <<>> THEN prevDigit
    ELSE IF IsDigit(Head(s)) THEN DigitsOk(Tail(s), TRUE)
    ELSE IF Head(s) = "_" THEN prevDigit /\ DigitsOk(Tail(s), FALSE)
    ELSE FALSE

RECURSIVE DigitsVal(_, _)
DigitsVal(s, acc) ==
    IF s = <<>> THEN acc
    ELSE IF Head(s) = "_" THEN DigitsVal(Tail(s), acc)
    ELSE DigitsVal(Tail(s), acc * 10 + DigitVal(Head(s)))

\* int(s): surrounding whitespace and one sign are accepted; anything else
\* raises ValueError (ok = FALSE).
PyInt(s) ==
    LET t == Strip(s)
        signed == t # <<>> /\ Head(t) \in {"+", "-"}
        body == IF signed THEN Tail(t) ELSE t
        good == body # <<>> /\ DigitsOk(body, FALSE)
    IN  [ok |-> good,
         val |-> IF ~good THEN 0
                 ELSE IF signed /\ Head(t) = "-" THEN 0 - DigitsVal(body, 0)
                 ELSE DigitsVal(body, 0)]

----------------------------------------------------------------------------
(* base64, as Python's base64.b64encode / base64.b64decode compute it.     *)

B64Alphabet ==
    <<
    "A", "B", "C", "D", "E", "F", "G", "H", "I", "J", "K", "L", "M", "N", "O", "P",
    "Q", "R", "S", "T", "U", "V", "W", "X", "Y", "Z", "a", "b", "c", "d", "e", "f",
    "g", "h", "i", "j", "k", "l", "m", "n", "o", "p", "q", "r", "s", "t", "u", "v",
    "w", "x", "y", "z", "0", "1", "2", "3", "4", "5", "6", "7", "8", "9", "+", "/" >>

\* table_a2b_base64: the 6-bit value of a character, 64 for any other character
B64Val(c) ==
    IF \E i \in 1..Len(B64Alphabet) : B64Alphabet[i] = c
    THEN (CHOOSE i \in 1..Len(B64Alphabet) : B64Alphabet[i] = c) - 1
    ELSE 64

B64Chr(v) == B64Alphabet[v + 1]

\* base64.b64encode: three bytes to four characters, '=' padding at the end
RECURSIVE b64encode(_)
b64encode(bs) ==
    IF bs = <<>> THEN <<>>
    ELSE IF Len(bs) = 1 THEN
        <<B64Chr(bs[1] \div 4), B64Chr((bs[1] % 4) * 16), "=", "=">>
    ELSE IF Len(bs) = 2 THEN
        <<B64Chr(bs[1] \div 4), B64Chr((bs[1] % 4) * 16 + bs[2] \div 16),
          B64Chr((bs[2] % 16) * 4), "=">>
    ELSE
        <<B64Chr(bs[1] \div 4), B64Chr((bs[1] % 4) * 16 + bs[2] \div 16),
          B64Chr((bs[2] % 16) * 4 + bs[3] \div 64), B64Chr(bs[3] % 64)>>
        \o b64encode(SubSeq(bs, 4, Len(bs)))

\* binascii.a2b_base64 (non-strict, as base64.b64decode calls it): characters
\* outside the alphabet are skipped, a pad sequence that completes a quad ends
\* the parse, and leftover characters of an incomplete quad raise binascii.Error.
RECURSIVE A2bLoop(_, _, _, _, _)
A2bLoop(s, quad_pos, leftchar, pads, out) ==
    IF s = <<>> THEN [ok |-> quad_pos = 0, bytes |-> out]
    ELSE IF Head(s) = "=" THEN
        IF quad_pos >= 2 /\ quad_pos + pads + 1 >= 4
        THEN [ok |-> TRUE, bytes |-> out]
        ELSE A2bLoop(Tail(s), quad_pos, leftchar,
                     IF quad_pos >= 2 THEN pads + 1 ELSE pads, out)
    ELSE LET ch == B64Val(Head(s)) IN
        IF ch >= 64 THEN A2bLoop(Tail(s), quad_pos, leftchar, pads, out)
        ELSE IF quad_pos = 0 THEN A2bLoop(Tail(s), 1, ch, 0, out)
        ELSE IF quad_pos = 1 THEN
            A2bLoop(Tail(s), 2, ch % 16, 0, Append(out, leftchar * 4 + ch \div 16))
        ELSE IF quad_pos = 2 THEN
            A2bLoop(Tail(s), 3, ch % 4, 0, Append(out, leftchar * 16 + ch \div 4))
        ELSE
            A2bLoop(Tail(s), 0, 0, 0, Append(out, leftchar * 64 + ch))

\* base64.b64decode(s): ok = FALSE stands for the binascii.Error it raises
b64decode(s) == A2bLoop(s, 0, 0, 0, <<>>)

----------------------------------------------------------------------------
(* Message Classifier and Outbound Message Encoder.                        *)

RTC00 == <<"R", "T", "C", "0", "0">>
RTC01 == <<"R", "T", "C", "0", "1">>
RTC02 == <<"R", "T", "C", "0", "2">>
CLS01 == <<"C", "L", "S", "0", "1">>
PA000 == <<"P", "A", "0", "0", "0">>

\* _is_protocol_message without the test of the separating space
_is_protocol_message_nospace(l) ==
    IF Len(l) < 6 THEN FALSE
    ELSE LET code == SubSeq(l, 1, 5) IN
         \/ code \in {RTC00, RTC01, RTC02, CLS01}
         \/ StartsWith(code, <<"P", "A">>)
         \/ StartsWith(code, <<"P", "X">>)
         \/ StartsWith(code, <<"E", "R", "R">>)

\* _is_protocol_message(line)
_is_protocol_message(l) ==
    IF Len(l) < 6 THEN FALSE
    ELSE LET code == SubSeq(l, 1, 5) IN
        IF l[6] # " " THEN FALSE
        ELSE \/ code \in {RTC00, RTC01, RTC02, CLS01}
             \/ StartsWith(code, <<"P", "A">>)
             \/ StartsWith(code, <<"P", "X">>)
             \/ StartsWith(code, <<"E", "R", "R">>)

\* _extract_code_content(line): <<code, content>>
_extract_code_content(l) ==
    IF Len(l) >= 6
    THEN <<SubSeq(l, 1, 5), IF Len(l) > 6 THEN SubSeq(l, 7, Len(l)) ELSE <<>> >>
    ELSE << <<>>, <<>> >>

\* the line _send_message builds: f"{code} {content}".strip()
FormatMessage(code, content) == Strip(code \o <<" ">> \o content)

\* what write() puts on the transport for a message, tagged with the writing thread
Written(by, msg) == [by |-> by, data |-> msg \o <<"\n">>]

----------------------------------------------------------------------------
(* Image Transfer Session.                                                 *)

EmptyDict == <<>>

\* d[k] = v on a Python dict
DictSet(d, k, v) == (k :> v) @@ d

\* the loop of _handle_image_metadata over content.split(',')
RECURSIVE ParseItems(_, _)
ParseItems(items, md) ==
    IF items = <<>> THEN md
    ELSE LET item == Strip(Head(items))
             k == Find(item, ":")
         IN  IF k = 0 THEN ParseItems(Tail(items), md)
             ELSE ParseItems(Tail(items),
                             DictSet(md, Strip(SubSeq(item, 1, k - 1)),
                                     Strip(SubSeq(item, k + 1, Len(item)))))

ParseMetadata(content) == ParseItems(Split(content, ","), EmptyDict)

\* self.image_metadata.get('parts', '0')
PartsField(md) ==
    IF <<"p", "a", "r", "t", "s">> \in DOMAIN md THEN md[<<"p", "a", "r", "t", "s">>] ELSE <<"0">>

\* the lowest index of 1..n absent from parts, 0 when none is absent
MissingPart(parts, n) ==
    IF \E i \in 1..n : i \notin DOMAIN parts
    THEN CHOOSE i \in 1..n :
            /\ i \notin DOMAIN parts
            /\ \A j \in 1..(i - 1) : j \in DOMAIN parts
    ELSE 0

\* base64_data after the loop "for i in range(1, expected_parts + 1)" when no
\* part is missing
RECURSIVE ConcatFrom(_, _, _)
ConcatFrom(parts, i, n) ==
    IF i > n THEN <<>> ELSE parts[i] \o ConcatFrom(parts, i + 1, n)

\* the loop written as range(1, expected_parts): the last part is left out
ConcatParts_skipLast(parts, n) == ConcatFrom(parts, 1, n - 1)

ConcatParts(parts, n) == ConcatFrom(parts, 1, n)

\* engine.py: "".join(image_parts.get(i, "") for i in range(1, expected_parts + 1))
RECURSIVE ConcatGetFrom(_, _, _)
ConcatGetFrom(parts, i, n) ==
    IF i > n THEN <<>>
    ELSE (IF i \in DOMAIN parts THEN parts[i] ELSE <<>>) \o ConcatGetFrom(parts, i + 1, n)

ConcatPartsGet(parts, n) == ConcatGetFrom(parts, 1, n)

----------------------------------------------------------------------------
(* Protocol State Machine: the handlers, run by the reader thread.  Each   *)
(* fragment fixes rdPc, exitCause, pend, the session, connected, decoded   *)
(* and reported; ReaderProcess fixes the rest.                             *)

\* where the reader thread stands once its loop has ended: BluetoothModule's
\* loop is followed by handle_command(["disconnect"]), the others' by nothing
LoopEnd == IF variant = "module" THEN "exited" ELSE "stopped"

\* the handler returns to the reader loop
Return == rdPc' = "loop" /\ UNCHANGED <<exitCause, pend, sendResult>>

\* the handler returns to the reader loop after _send_message returned False
ReturnAfterFailedSend ==
    rdPc' = "loop" /\ sendResult' = <<FALSE>> /\ UNCHANGED <<exitCause, pend>>

\* an exception leaves the handler: the reader loop's "except Exception: break"
Raise == rdPc' = LoopEnd /\ exitCause' = "exception" /\ UNCHANGED <<pend, sendResult>>

\* the "finally" block of _process_complete_image
ResetImageState ==
    /\ waiting_for_image' = FALSE
    /\ image_metadata' = EmptyDict
    /\ image_parts' = EmptyDict
    /\ expected_parts' = 0

\* _send_message called by the reader thread outside _process_complete_image:
\* False, and nothing written, when the port is not open
ReaderSend(code, content) ==
    IF ser = "open"
    THEN /\ rdPc' = "write"
         /\ pend' = <<[msg |-> FormatMessage(code, content), then |-> "return"]>>
         /\ UNCHANGED <<exitCause, sendResult>>
    ELSE ReturnAfterFailedSend

\* the send inside _process_complete_image without the test of the port
SendThenFinally_noOpenCheck(code, content, parts1) ==
    /\ rdPc' = "write"
    /\ pend' = <<[msg |-> FormatMessage(code, content), then |-> "finally"]>>
    /\ image_parts' = parts1
    /\ UNCHANGED <<exitCause, sendResult, waiting_for_image, image_metadata,
                   expected_parts>>

\* _send_message called inside _process_complete_image, whose "finally" runs
\* once the send has returned; parts1 is image_parts with the final part stored
SendThenFinally(code, content, parts1) ==
    IF ser = "open"
    THEN /\ rdPc' = "write"
         /\ pend' = <<[msg |-> FormatMessage(code, content), then |-> "finally"]>>
         /\ image_parts' = parts1
         /\ UNCHANGED <<exitCause, sendResult, waiting_for_image, image_metadata,
                        expected_parts>>
    ELSE ReturnAfterFailedSend /\ ResetImageState

\* Image.open(io.BytesIO(image_data)): it accepts the bytes (TRUE) or raises
\* (FALSE); no image format identifies an empty file
ImageOpens(bytes) == IF bytes = <<>> THEN {FALSE} ELSE BOOLEAN

\* SmartBinPySerialProtocol._process_complete_image
_process_complete_image(parts1) ==
    IF MissingPart(parts1, expected_parts) # 0
    THEN /\ decoded' = <<>> /\ reported' = FALSE
         /\ SendThenFinally(<<"E", "R", "R", "0", "2">>, <<"m", "i", "s", "s", "i", "n", "g", "_", "i", "m", "a", "g", "e", "_", "p", "a", "r", "t", "s">>, parts1)
    ELSE LET d == b64decode(ConcatParts(parts1, expected_parts)) IN
         IF ~d.ok
         THEN /\ decoded' = <<>> /\ reported' = FALSE
              /\ SendThenFinally(<<"E", "R", "R", "0", "3">>, <<"b", "a", "s", "e", "6", "4", "_", "d", "e", "c", "o", "d", "e", "_", "f", "a", "i", "l", "e", "d">>, parts1)
         ELSE \E valid \in ImageOpens(d.bytes) :
              /\ decoded' = <<d.bytes>>
              /\ reported' = valid
              /\ IF valid
                 THEN Return /\ ResetImageState
                 ELSE SendThenFinally(<<"E", "R", "R", "0", "3">>, <<"b", "a", "s", "e", "6", "4", "_", "d", "e", "c", "o", "d", "e", "_", "f", "a", "i", "l", "e", "d">>, parts1)

\* GUIProtocol._process_complete_image, up to the call of the classifier
GUIProtocol_process_complete_image(parts1) ==
    IF MissingPart(parts1, expected_parts) # 0
    THEN /\ decoded' = <<>> /\ reported' = FALSE
         /\ Return /\ ResetImageState
    ELSE LET d == b64decode(ConcatParts(parts1, expected_parts)) IN
         IF ~d.ok
         THEN /\ decoded' = <<>> /\ reported' = FALSE
              /\ Return /\ ResetImageState
         ELSE \E valid \in ImageOpens(d.bytes) :
              /\ decoded' = <<d.bytes>>
              /\ reported' = valid
              /\ IF valid
                 THEN /\ rdPc' = "classify"
                      /\ image_parts' = parts1
                      /\ UNCHANGED <<exitCause, pend, sendResult, waiting_for_image,
                                     image_metadata, expected_parts>>
                 ELSE Return /\ ResetImageState

\* engine.py _process_complete_image; BluetoothModule._process_complete_image
\* is the same code on the class's static fields
engine_process_complete_image(parts1) ==
    LET d == b64decode(ConcatPartsGet(parts1, expected_parts)) IN
    IF d.ok
    THEN /\ decoded' = <<d.bytes>> /\ reported' = TRUE
         /\ Return /\ ResetImageState
    ELSE /\ decoded' = <<>> /\ reported' = FALSE
         /\ SendThenFinally(<<"E", "R", "R", "0", "4">>, <<"i", "m", "a", "g", "e", "_", "p", "r", "o", "c", "e", "s", "s", "i", "n", "g", "_", "f", "a", "i", "l", "e", "d">>, parts1)

ProcessCompleteImage(parts1) ==
    IF variant = "pyserial" THEN _process_complete_image(parts1)
    ELSE IF variant = "gui" THEN GUIProtocol_process_complete_image(parts1)
    ELSE engine_process_complete_image(parts1)

\* the metadata handler without "self.image_parts = {}"
_handle_image_metadata_keepParts(content) ==
    LET md == ParseMetadata(content)
        n == PyInt(PartsField(md))
    IN  /\ image_metadata' = md
        /\ UNCHANGED <<image_parts, connected, decoded, reported>>
        /\ IF n.ok
           THEN /\ expected_parts' = n.val
                /\ waiting_for_image' = TRUE
                /\ Return
           ELSE /\ UNCHANGED <<expected_parts, waiting_for_image>>
                /\ Raise

\* _handle_image_metadata(content)
_handle_image_metadata(content) ==
    LET md == ParseMetadata(content)
        n == PyInt(PartsField(md))
    IN  /\ image_metadata' = md
        /\ image_parts' = EmptyDict
        /\ UNCHANGED <<connected, decoded, reported>>
        /\ IF n.ok
           THEN /\ expected_parts' = n.val
                /\ waiting_for_image' = TRUE
                /\ Return
           ELSE /\ UNCHANGED <<expected_parts, waiting_for_image>>
                /\ Raise

\* the part stored at its arrival position instead of its part number
_handle_image_part_byArrival(part_num, content) ==
    /\ UNCHANGED <<connected, decoded, reported, waiting_for_image,
                   image_metadata, expected_parts>>
    /\ Return
    /\ IF ~waiting_for_image
       THEN UNCHANGED image_parts
       ELSE image_parts' = DictSet(image_parts, Cardinality(DOMAIN image_parts) + 1, content)

\* the part stored only when its index holds no payload yet
_handle_image_part_keepFirst(part_num, content) ==
    /\ UNCHANGED <<connected, decoded, reported, waiting_for_image,
                   image_metadata, expected_parts>>
    /\ Return
    /\ IF ~waiting_for_image \/ part_num \in DOMAIN image_parts
       THEN UNCHANGED image_parts
       ELSE image_parts' = DictSet(image_parts, part_num, content)

\* the part stored without the test of waiting_for_image
_handle_image_part_unguarded(part_num, content) ==
    /\ UNCHANGED <<connected, decoded, reported, waiting_for_image,
                   image_metadata, expected_parts>>
    /\ Return
    /\ image_parts' = DictSet(image_parts, part_num, content)

\* _handle_image_part(part_num, content)
_handle_image_part(part_num, content) ==
    /\ UNCHANGED <<connected, decoded, reported, waiting_for_image,
                   image_metadata, expected_parts>>
    /\ Return
    /\ IF ~waiting_for_image
       THEN UNCHANGED image_parts
       ELSE image_parts' = DictSet(image_parts, part_num, content)

\* reassembly attempted only when the final part carries the announced count
_handle_final_image_part_ifLast(part_num, content) ==
    /\ UNCHANGED connected
    /\ IF ~waiting_for_image
       THEN Return /\ UNCHANGED <<session, decoded, reported>>
       ELSE IF part_num = expected_parts
       THEN ProcessCompleteImage(DictSet(image_parts, part_num, content))
       ELSE /\ Return
            /\ image_parts' = DictSet(image_parts, part_num, content)
            /\ UNCHANGED <<waiting_for_image, image_metadata, expected_parts,
                           decoded, reported>>

\* _handle_final_image_part(part_num, content)
_handle_final_image_part(part_num, content) ==
    /\ UNCHANGED connected
    /\ IF ~waiting_for_image
       THEN Return /\ UNCHANGED <<session, decoded, reported>>
       ELSE ProcessCompleteImage(DictSet(image_parts, part_num, content))

\* the RTC00 branch marking the link connected as it replies
HandleRTC00_connects ==
    /\ ReaderSend(<<"R", "T", "C", "0", "1">>, <<"L", "a", "p", "t", "o", "p", " ", "r", "e", "a", "d", "y">>)
    /\ connected' = TRUE
    /\ UNCHANGED <<session, decoded, reported>>

\* the RTC00 branch of _handle_protocol_message
HandleRTC00 ==
    /\ ReaderSend(<<"R", "T", "C", "0", "1">>, <<"L", "a", "p", "t", "o", "p", " ", "r", "e", "a", "d", "y">>)
    /\ UNCHANGED <<session, connected, decoded, reported>>

\* the RTC02 branch leaving the connection state as it is
HandleRTC02_ignored ==
    /\ Return
    /\ UNCHANGED <<session, connected, decoded, reported>>

\* the RTC02 branch of _handle_protocol_message
HandleRTC02 ==
    /\ connected' = TRUE
    /\ Return
    /\ UNCHANGED <<session, decoded, reported>>

\* a frame no branch acts on taken as the end of the connection
HandleOther_disconnects ==
    /\ Return
    /\ connected' = FALSE
    /\ UNCHANGED <<session, decoded, reported>>

\* a frame no branch acts on (ERR..., RTC01, CLS01): printed at most
HandleOther == Return /\ UNCHANGED <<session, connected, decoded, reported>>

\* int(code[2:]) raised ValueError
HandleBadSuffix == Raise /\ UNCHANGED <<session, connected, decoded, reported>>

\* _handle_protocol_message(code, content): the if / elif chain
_handle_protocol_message(code, content) ==
    LET num == PyInt(SubSeq(code, 3, Len(code))) IN
    IF code = RTC00 THEN HandleRTC00
    ELSE IF code = RTC02 THEN HandleRTC02
    ELSE IF code = PA000 THEN _handle_image_metadata(content)
    ELSE IF StartsWith(code, <<"P", "A">>) THEN
        IF num.ok THEN _handle_image_part(num.val, content) ELSE HandleBadSuffix
    ELSE IF StartsWith(code, <<"P", "X">>) THEN
        IF num.ok THEN _handle_final_image_part(num.val, content) ELSE HandleBadSuffix
    ELSE HandleOther

\* _process_line(line): a frame is printed as "Protocol: code content" and
\* handled, any other line is printed as device text
_process_line(l) ==
    IF _is_protocol_message(l)
    THEN /\ shown' = <<[kind |-> "protocol",
                        code |-> _extract_code_content(l)[1],
                        content |-> _extract_code_content(l)[2]]>>
         /\ _handle_protocol_message(_extract_code_content(l)[1],
                                     _extract_code_content(l)[2])
    ELSE /\ shown' = <<[kind |-> "text", code |-> <<>>, content |-> l]>>
         /\ HandleOther

----------------------------------------------------------------------------
(* Inputs.                                                                 *)

Variants == {"pyserial", "gui", "engine"}

\* lines of the device, as readline() returns them (newline already dropped)
RawLines ==
    { <<"R", "T", "C", "0", "0", " ", "h", "i">>,
      <<"R", "T", "C", "0", "0">>,
      <<"R", "T", "C", "0", "2", " ", "o", "k">>,
      <<"R", "T", "C", "0", "1", " ", "h", "i">>,
      <<"C", "L", "S", "0", "1", " ", "x">>,
      <<"E", "R", "R", "0", "1", " ", "o", "o", "p", "s">>,
      <<"P", "A", "0", "0", "0", " ", "p", "a", "r", "t", "s", ":", "2">>,
      <<"P", "A", "0", "0", "0", " ", "p", "a", "r", "t", "s", ":", "1">>,
      <<"P", "A", "0", "0", "0", " ", "s", "i", "z", "e", ":", "9">>,
      <<"P", "A", "0", "0", "0", " ", "p", "a", "r", "t", "s", ":", "x">>,
      <<"P", "A", "0", "0", "1", " ", "S", "G", "V", "s", "b", "G", "8", "=">>,
      <<"P", "A", "0", "0", "1", " ", "S", "G", "V", "s">>,
      <<"P", "X", "0", "0", "2", " ">>,
      <<"P", "X", "0", "0", "2", " ", "b", "G", "8", "=">>,
      <<"P", "X", "0", "0", "1", " ", "S", "G", "V", "s", "b", "G", "8", "=">>,
      <<"P", "X", "0", "0", "1", " ", "S", "G", "V", "s", "b", "G", "8">>,
      <<"P", "X", "0", "0", "1", " ", "!", "!", "!", "n", "o", "t", "b", "a", "s", "e", "6", "4", "!", "!", "!">>,
      <<"P", "A", "x", "y", "z", " ", "c", "o", "n", "t", "e", "n", "t">>,
      <<"h", "e", "l", "l", "o">>,
      <<>> }

\* what the operator types in the GUI command entry / after "bluetooth send "
MainCommands == { <<"C", "L", "S", "0", "1", " ", "p", "l", "a", "s", "t", "i", "c", " ", "0", ".", "9", "0">> }

\* the main thread stops sending once this many lines lie on the transport
\* since the reader last took a line
MaxSent == 1

\* outcomes of _classify_with_yolo_backend: confidence in hundredths
ClassifyResults ==
    { [success |-> TRUE, result |-> "plastic", confidence |-> 87],
      [success |-> TRUE, result |-> "organic", confidence |-> 100],
      [success |-> FALSE, result |-> "", confidence |-> 0] }

recyclable_classes == {"aluminium", "carton", "glass", "paper_and_cardboard", "plastic"}

\* f"{confidence:.2f}" for a confidence given in hundredths
FormatConfidence(c) ==
    <<Digits[(c \div 100) + 1], ".", Digits[((c \div 10) % 10) + 1], Digits[(c % 10) + 1]>>

----------------------------------------------------------------------------
(* Threads.                                                                *)

\* the implementations the threads are modelled for; the class BluetoothModule
\* runs the engine's handlers on static fields
AllVariants == Variants \cup {"module"}

\* SmartBinPySerialProtocol.__init__ / EngineState.__init__ / the static
\* fields of BluetoothModule
Init ==
    /\ variant \in AllVariants
    /\ ser = "none"
    /\ running = FALSE
    /\ connected = FALSE
    /\ waiting_for_image = FALSE
    /\ image_metadata = EmptyDict
    /\ image_parts = EmptyDict
    /\ expected_parts = 0
    /\ rdPc = "none"
    /\ exitCause = "none"
    /\ raw = <<>>
    /\ line = <<>>
    /\ shown = <<>>
    /\ pend = <<>>
    /\ sent = <<>>
    /\ decoded = <<>>
    /\ reported = FALSE
    /\ mainPc = "new"
    /\ mainMsg = <<>>
    /\ sendResult = <<>>
    /\ orphan = "none"
    /\ script = <<>>
    /\ srcBytes = <<>>
    /\ padded = TRUE
    /\ order = <<>>
    /\ wire = <<>> /\ rxbuf = <<>> /\ lineBuf = <<>> /\ eof = FALSE
    /\ initialized = FALSE /\ rfcomm_bound = FALSE
    /\ GuiIdle
    /\ LogsIdle
    /\ DaemonIdle
    /\ FifoIdle

\* start() / handle_bluetooth_init() / BluetoothModule.connect(): binding and
\* port set up, the flag set, the reader thread started (connect() then sets
\* _connected itself); or a set-up step failed and the call returned False
Start ==
    /\ mainPc = "new"
    /\ \E ok \in BOOLEAN :
        IF ok
        THEN /\ ser' = "open"
             /\ running' = TRUE
             /\ rdPc' = "loop"
             /\ mainPc' = "run"
             /\ connected' = (IF variant = "module" THEN TRUE ELSE connected)
        ELSE /\ mainPc' = "done"
             /\ UNCHANGED <<ser, running, rdPc, connected>>
    /\ UNCHANGED <<variant, session, exitCause, raw, line, shown, pend, sent,
                   decoded, reported, mainMsg, sendResult, orphan, harness>>

\* _reader_loop: one pass of the loop that finds a line waiting:
\* line = self.ser.readline().decode('utf-8', errors='ignore').strip(),
\* and "if line:" sends an empty line back to the top of the loop
ReaderRead ==
    /\ rdPc = "loop"
    /\ running /\ ser = "open"
    /\ \E r \in RawLines :
        /\ raw' = r
        /\ line' = Strip(r)
        /\ rdPc' = IF Strip(r) = <<>> THEN "loop" ELSE "process"
    /\ shown' = <<>>
    /\ sent' = <<>>
    /\ decoded' = <<>>
    /\ reported' = FALSE
    /\ UNCHANGED <<variant, ser, running, connected, session, exitCause, pend,
                   mainPc, mainMsg, sendResult, orphan, harness>>

\* _reader_loop: in_waiting or readline() raised (transport I/O failure)
ReaderIOError ==
    /\ rdPc = "loop"
    /\ running /\ ser = "open"
    /\ rdPc' = LoopEnd
    /\ exitCause' = "io"
    /\ UNCHANGED <<variant, ser, running, connected, session, raw, line, shown, pend, sent,
                   decoded, reported, mainPc, mainMsg, sendResult, orphan, harness>>

\* _reader_loop: the while condition is false
ReaderExit ==
    /\ rdPc = "loop"
    /\ ~(running /\ ser = "open")
    /\ rdPc' = LoopEnd
    /\ exitCause' = "flag"
    /\ UNCHANGED <<variant, ser, running, connected, session, raw, line, shown, pend, sent,
                   decoded, reported, mainPc, mainMsg, sendResult, orphan, harness>>

\* BluetoothModule._bluetooth_reader_loop, after the loop:
\* handle_command(["disconnect"]) on the reader thread.  disconnect() returns
\* at once when _connected is false; otherwise _cleanup_connection clears
\* _running and _connected and joins _reader_thread, which is the calling
\* thread: join raises RuntimeError, disconnect() catches it and returns
\* False, and the port is never closed by this call.
ReaderDisconnect ==
    /\ rdPc = "exited"
    /\ rdPc' = "stopped"
    /\ IF connected
       THEN running' = FALSE /\ connected' = FALSE
       ELSE UNCHANGED <<running, connected>>
    /\ UNCHANGED <<variant, ser, session, exitCause, raw, line, shown, pend, sent,
                   decoded, reported, mainPc, mainMsg, sendResult, orphan, harness>>

\* _reader_loop: self._process_line(line)
ReaderProcess ==
    /\ rdPc = "process"
    /\ _process_line(line)
    /\ UNCHANGED <<variant, ser, running, raw, line, sent, mainPc, mainMsg, orphan,
                   harness>>

\* _send_message in the reader thread: write() and flush() have returned
ReaderWriteDone ==
    /\ rdPc = "write"
    /\ sent' = Append(sent, Written("reader", pend[1].msg))
    /\ pend' = <<>>
    /\ rdPc' = "loop"
    /\ sendResult' = <<TRUE>>
    /\ IF pend[1].then = "finally" THEN ResetImageState ELSE UNCHANGED session
    /\ UNCHANGED <<variant, ser, running, connected, exitCause, raw, line, shown, decoded,
                   reported, mainPc, mainMsg, orphan, harness>>

\* GUIProtocol._process_complete_image: the classifier has returned
ReaderClassifyDone ==
    /\ rdPc = "classify"
    /\ \E res \in ClassifyResults :
        IF res.success
        THEN SendThenFinally(CLS01,
                 (IF res.result \in recyclable_classes
                  THEN <<"r", "e", "c", "y", "c", "l", "a", "b", "l", "e">> ELSE <<"n", "o", "n", "-", "r", "e", "c", "y", "c", "l", "a", "b", "l", "e">>)
                 \o <<" ">> \o FormatConfidence(res.confidence),
                 image_parts)
        ELSE SendThenFinally(CLS01, <<"E", "R", "R", "O", "R", " ", "0", ".", "0", "0">>, image_parts)
    /\ UNCHANGED <<variant, ser, running, connected, raw, line, shown, sent, decoded,
                   reported, mainPc, mainMsg, orphan, harness>>

\* the line the main thread writes for a command: the GUI splits it at the
\* first space and calls _send_message; the engine writes the message as it
\* is; BluetoothModule.transmit_message calls _send_bluetooth_message("", message)
MainLine(cmd) ==
    IF variant = "gui"
    THEN LET k == Find(cmd, " ") IN
         IF k = 0 THEN FormatMessage(cmd, <<>>)
         ELSE FormatMessage(SubSeq(cmd, 1, k - 1), SubSeq(cmd, k + 1, Len(cmd)))
    ELSE IF variant = "module" THEN FormatMessage(<<>>, cmd)
    ELSE cmd

\* _send_manual_command / handle_bluetooth_send / transmit_message (which
\* returns False at once unless _connected): the port is open, write() begins
MainSend ==
    /\ mainPc = "run"
    /\ variant \in {"gui", "engine", "module"}
    /\ variant = "module" => connected
    /\ ser = "open"
    /\ Len(sent) < MaxSent
    /\ \E cmd \in MainCommands : mainMsg' = MainLine(Strip(cmd))
    /\ mainPc' = "write"
    /\ UNCHANGED <<variant, ser, running, connected, session, rdPc, exitCause, raw,
                   line, shown, pend, sent, decoded, reported, sendResult, orphan,
                   harness>>

\* the main thread's write() and flush() have returned; _send_message and
\* _send_bluetooth_message return True, handle_bluetooth_send returns nothing
MainWriteDone ==
    /\ mainPc = "write"
    /\ sent' = Append(sent, Written("main", mainMsg))
    /\ mainMsg' = <<>>
    /\ mainPc' = "run"
    /\ sendResult' = (IF variant = "engine" THEN sendResult ELSE <<TRUE>>)
    /\ UNCHANGED <<variant, ser, running, connected, session, rdPc, exitCause, raw,
                   line, shown, pend, decoded, reported, orphan, harness>>

\* _send_manual_command while the protocol object exists and its start() has
\* not opened the port yet (SmartBinGUI.running is set before the protocol
\* thread starts): _send_message finds self.ser None and returns False
MainSendNotOpen ==
    /\ mainPc = "new"
    /\ variant = "gui"
    /\ ser # "open"
    /\ sendResult' = <<FALSE>>
    /\ UNCHANGED <<variant, ser, running, connected, session, rdPc, exitCause, raw,
                   line, shown, pend, sent, decoded, reported, mainPc, mainMsg, orphan,
                   harness>>

\* stop() joining the reader without having cleared the flags
StopBegin_joinsFirst ==
    /\ mainPc = "run"
    /\ variant = "module" => connected
    /\ mainPc' = "join"
    /\ UNCHANGED <<variant, ser, running, connected, session, rdPc, exitCause, raw, line,
                   shown, pend, sent, decoded, reported, mainMsg, sendResult, orphan,
                   harness>>

\* stop() / _cleanup_bluetooth() / BluetoothModule.disconnect() (which does
\* nothing unless _connected): the flags are cleared, then the join begins
StopBegin ==
    /\ mainPc = "run"
    /\ variant = "module" => connected
    /\ running' = FALSE
    /\ connected' = FALSE
    /\ mainPc' = "join"
    /\ UNCHANGED <<variant, ser, session, rdPc, exitCause, raw, line, shown, pend, sent,
                   decoded, reported, mainMsg, sendResult, orphan, harness>>

\* the join gives up wherever the reader stands, then the port is closed
StopFinish_joinGivesUp ==
    /\ mainPc = "join"
    /\ ser' = "closed"
    /\ mainPc' = "done"
    /\ UNCHANGED <<variant, running, connected, session, rdPc, exitCause, raw, line, shown,
                   pend, sent, decoded, reported, mainMsg, sendResult, orphan, harness>>

\* reader_thread.join(timeout=2) has returned: the reader has ended, or it has
\* been inside the classifier (a subprocess given 30 s) for the whole timeout;
\* every other step of the reader is bounded by the 1 s read and write timeouts.
\* Then _cleanup_serial() closes the port.
StopFinish ==
    /\ mainPc = "join"
    /\ rdPc \in {"stopped", "classify"}
    /\ ser' = "closed"
    /\ mainPc' = "done"
    /\ UNCHANGED <<variant, running, connected, session, rdPc, exitCause, raw, line, shown,
                   pend, sent, decoded, reported, mainMsg, sendResult, orphan, harness>>

\* the caller may connect again: after a stop or a failed start, and, for
\* BluetoothModule, once the reader's own disconnect has cleared _connected
MayConnectAgain ==
    \/ variant \in {"gui", "engine", "module"} /\ mainPc = "done"
    \/ variant = "module" /\ mainPc = "run" /\ ~connected /\ rdPc = "stopped"

\* the connection is established again.
\* gui: _connect / _attempt_reconnection build a new GUIProtocol and start it;
\*   a reader of the old object still inside the classifier stays with the
\*   old object.
\* engine: handle_bluetooth_init() on the one EngineState; module:
\*   BluetoothModule.connect() on the static fields (and _connected = True).
\*   Neither touches the image state; a reader that outlived its join would
\*   go on working on that same state.
Restart ==
    /\ MayConnectAgain
    /\ ser' = "open"
    /\ running' = TRUE
    /\ rdPc' = "loop"
    /\ exitCause' = "none"
    /\ mainPc' = "run"
    /\ orphan' = IF rdPc \in {"none", "stopped"} THEN orphan
                 ELSE IF variant = "gui" THEN "own" ELSE "shared"
    /\ IF variant = "gui"
       THEN /\ connected' = FALSE
            /\ ResetImageState
            /\ raw' = <<>> /\ line' = <<>> /\ shown' = <<>> /\ sent' = <<>>
            /\ decoded' = <<>> /\ reported' = FALSE /\ sendResult' = <<>>
       ELSE /\ connected' = (variant = "module")
            /\ UNCHANGED <<session, raw, line, shown, sent, decoded, reported,
                           sendResult>>
    /\ UNCHANGED <<variant, pend, mainMsg, harness>>

\* the outlived reader ends: back from the classifier its _send_message finds
\* the old port closed, and its loop condition is false
OrphanEnds ==
    /\ orphan # "none"
    /\ orphan' = "none"
    /\ UNCHANGED <<variant, ser, running, connected, session, rdPc, exitCause, raw, line,
                   shown, pend, sent, decoded, reported, mainPc, mainMsg, sendResult,
                   harness>>

Next ==
    \/ Start
    \/ ReaderRead
    \/ ReaderIOError
    \/ ReaderExit
    \/ ReaderDisconnect
    \/ ReaderProcess
    \/ ReaderWriteDone
    \/ ReaderClassifyDone
    \/ MainSend
    \/ MainWriteDone
    \/ MainSendNotOpen
    \/ StopBegin
    \/ StopFinish
    \/ Restart
    \/ OrphanEnds

Spec == Init /\ [][Next]_vars

\* one connection from start() to stop(): the steps of Next without the ones
\* that connect again
NextOnce ==
    \/ Start
    \/ ReaderRead
    \/ ReaderIOError
    \/ ReaderExit
    \/ ReaderDisconnect
    \/ ReaderProcess
    \/ ReaderWriteDone
    \/ ReaderClassifyDone
    \/ MainSend
    \/ MainWriteDone
    \/ MainSendNotOpen
    \/ StopBegin
    \/ StopFinish

SpecOnce == Init /\ [][NextOnce]_vars

\* the reader thread is scheduled: a handler that has begun ends, a write
\* returns within its timeout, the classifier returns within its own, a
\* loop whose condition is false is left; and a join that can return returns.
\* Nothing obliges the device to send or the operator to act.
\* ReaderProcess is enabled exactly when rdPc = "process" and always leaves
\* that position, so its weak fairness is written as []<>(rdPc # "process").
FairSpecOnce ==
    /\ SpecOnce
    /\ WF_vars(ReaderExit)
    /\ WF_vars(ReaderDisconnect)
    /\ []<>(rdPc # "process")
    /\ WF_vars(ReaderWriteDone)
    /\ WF_vars(ReaderClassifyDone)
    /\ WF_vars(MainWriteDone)
    /\ WF_vars(StopFinish)

----------------------------------------------------------------------------
(* The classifier on its own: _process_line applied to lines drawn from a  *)
(* bounded set built around the code patterns.                             *)

MaxLineLen == 9

Heads ==
    { <<"R", "T", "C", "0", "0">>, <<"R", "T", "C", "0", "1">>, <<"R", "T", "C", "0", "2">>, <<"C", "L", "S", "0", "1">>, <<"R", "T", "C", "0", "3">>, <<"C", "L", "S", "0", "2">>, <<"r", "t", "c", "0", "0">>,
      <<"P", "A", "0", "0", "0">>, <<"P", "A", "0", "0", "1">>, <<"P", "A", "x", "y", "z">>, <<"P", "X", "0", "0", "2">>, <<"P", "X", "a", "b", "c">>, <<"P", "B", "0", "0", "1">>, <<"p", "a", "0", "0", "1">>,
      <<"E", "R", "R", "0", "4">>, <<"E", "R", "R", "x", "y">>, <<"E", "R", "x", "y", "z">>, <<" ", "P", "A", "0", "0">>, <<"P", " ", "A", "0", "1">> }

Separators == {" ", "x", "\t", ":"}

Tails == { <<>>, <<"a", " ", "b">>, <<" ", "a">>, <<"=", " ">> }

Take(s, n) == SubSeq(s, 1, IF n < Len(s) THEN n ELSE Len(s))

TestLines ==
    { Take(t[1] \o <<t[2]>> \o t[3], t[4]) :
          t \in Heads \X Separators \X Tails \X (0..MaxLineLen) }

\* the protocol object after a successful start(), handed one line
InitClassify ==
    /\ variant \in Variants
    /\ ser = "open"
    /\ running = TRUE
    /\ connected = FALSE
    /\ waiting_for_image = FALSE
    /\ image_metadata = EmptyDict
    /\ image_parts = EmptyDict
    /\ expected_parts = 0
    /\ rdPc = "process"
    /\ exitCause = "none"
    /\ raw \in TestLines
    /\ line = raw
    /\ shown = <<>>
    /\ pend = <<>>
    /\ sent = <<>>
    /\ decoded = <<>>
    /\ reported = FALSE
    /\ mainPc = "run"
    /\ mainMsg = <<>>
    /\ sendResult = <<>>
    /\ orphan = "none"
    /\ script = <<>>
    /\ srcBytes = <<>>
    /\ padded = TRUE
    /\ order = <<>>
    /\ wire = <<>> /\ rxbuf = <<>> /\ lineBuf = <<>> /\ eof = FALSE
    /\ initialized = FALSE /\ rfcomm_bound = FALSE
    /\ GuiIdle
    /\ LogsIdle
    /\ DaemonIdle
    /\ FifoIdle

NextClassify ==
    \/ ReaderProcess
    \/ ReaderWriteDone

SpecClassify == InitClassify /\ [][NextClassify]_vars

----------------------------------------------------------------------------
(* A transfer fed frame by frame: bytes B are base64-encoded, the encoding *)
(* is cut into N fragments, and the lines PA000 parts:N, PA001.., PX00N    *)
(* are handed to _process_line one after the other.                        *)

MaxBytes == 3
MaxParts == 3

ByteSamples == {0, 72, 255}

RECURSIVE SeqsUpTo(_, _)
SeqsUpTo(S, n) ==
    IF n = 0 THEN { <<>> }
    ELSE LET shorter == SeqsUpTo(S, n - 1) IN
         shorter \cup { Append(q, x) : q \in { r \in shorter : Len(r) = n - 1 }, x \in S }

SourceBytes == SeqsUpTo(ByteSamples, MaxBytes)

\* the encoding without its '=' padding
RECURSIVE Unpadded(_)
Unpadded(e) ==
    IF e # <<>> /\ e[Len(e)] = "=" THEN Unpadded(SubSeq(e, 1, Len(e) - 1)) ELSE e

\* the nondecreasing cut positions that split a text of length len into n fragments
RECURSIVE CutsFrom(_, _, _)
CutsFrom(lo, len, n) ==
    IF n = 1 THEN { <<len>> }
    ELSE UNION { { <<v>> \o q : q \in CutsFrom(v, len, n - 1) } : v \in lo..len }

Cuts(len, n) ==
    { [i \in 0..n |-> IF i = 0 THEN 0 ELSE q[i]] : q \in CutsFrom(0, len, n) }

\* the code of part i: PA / PX followed by the index on three digits
PartCode(prefix, i) ==
    prefix \o <<Digits[((i \div 100) % 10) + 1], Digits[((i \div 10) % 10) + 1],
                Digits[(i % 10) + 1]>>

\* the lines of one transfer of text e cut at c into n fragments
TransferLines(e, c, n) ==
    << PA000 \o <<" ", "p", "a", "r", "t", "s", ":">> \o <<Digits[n + 1]>> >>
    \o [i \in 1..n |->
          PartCode(IF i = n THEN <<"P", "X">> ELSE <<"P", "A">>, i)
          \o <<" ">> \o SubSeq(e, c[i - 1] + 1, c[i])]

InitTransfer ==
    /\ variant \in Variants
    /\ ser = "open"
    /\ running = TRUE
    /\ connected = FALSE
    /\ waiting_for_image = FALSE
    /\ image_metadata = EmptyDict
    /\ image_parts = EmptyDict
    /\ expected_parts = 0
    /\ rdPc = "loop"
    /\ exitCause = "none"
    /\ raw = <<>>
    /\ line = <<>>
    /\ shown = <<>>
    /\ pend = <<>>
    /\ sent = <<>>
    /\ decoded = <<>>
    /\ reported = FALSE
    /\ mainPc = "run"
    /\ mainMsg = <<>>
    /\ sendResult = <<>>
    /\ orphan = "none"
    /\ srcBytes \in SourceBytes
    /\ padded \in BOOLEAN
    /\ \E n \in 1..MaxParts :
        LET e == IF padded THEN b64encode(srcBytes) ELSE Unpadded(b64encode(srcBytes))
        IN  /\ \E c \in Cuts(Len(e), n) : script = TransferLines(e, c, n)
            /\ order = [i \in 1..(n - 1) |-> i]
    /\ wire = <<>> /\ rxbuf = <<>> /\ lineBuf = <<>> /\ eof = FALSE
    /\ initialized = FALSE /\ rfcomm_bound = FALSE
    /\ GuiIdle
    /\ LogsIdle
    /\ DaemonIdle
    /\ FifoIdle

\* the next line of the script is handed to _process_line
FeedLine ==
    /\ rdPc = "loop"
    /\ script # <<>>
    /\ raw' = Head(script)
    /\ line' = Head(script)
    /\ script' = Tail(script)
    /\ rdPc' = "process"
    /\ shown' = <<>>
    /\ sent' = <<>>
    /\ decoded' = <<>>
    /\ reported' = FALSE
    /\ UNCHANGED <<variant, ser, running, connected, session, exitCause, pend,
                   mainPc, mainMsg, sendResult, orphan, srcBytes, padded, order, fifo, daemon, logs, stream, module, gui>>

NextTransfer ==
    \/ FeedLine
    \/ ReaderProcess
    \/ ReaderWriteDone
    \/ ReaderClassifyDone

SpecTransfer == InitTransfer /\ [][NextTransfer]_vars

----------------------------------------------------------------------------
(* A transfer whose PA frames arrive in any order: the lines of            *)
(* TransferLines with the PA frames permuted, PA000 first and PX last.     *)

MaxOrderBytes == 2
MaxOrderParts == 3

\* the orders in which the part numbers 1..k can be sent
Orders(k) ==
    { f \in [1..k -> 1..k] : \A i, j \in 1..k : f[i] = f[j] => i = j }

\* the lines ls of a transfer in n fragments, its PA frames sent in order f
Reordered(ls, f, n) ==
    [i \in 1..(n + 1) |-> IF 1 < i /\ i <= n THEN ls[f[i - 1] + 1] ELSE ls[i]]

InitReordered ==
    /\ variant \in Variants
    /\ ser = "open"
    /\ running = TRUE
    /\ connected = FALSE
    /\ waiting_for_image = FALSE
    /\ image_metadata = EmptyDict
    /\ image_parts = EmptyDict
    /\ expected_parts = 0
    /\ rdPc = "loop"
    /\ exitCause = "none"
    /\ raw = <<>>
    /\ line = <<>>
    /\ shown = <<>>
    /\ pend = <<>>
    /\ sent = <<>>
    /\ decoded = <<>>
    /\ reported = FALSE
    /\ mainPc = "run"
    /\ mainMsg = <<>>
    /\ sendResult = <<>>
    /\ orphan = "none"
    /\ srcBytes \in SeqsUpTo(ByteSamples, MaxOrderBytes)
    /\ padded = TRUE
    /\ wire = <<>> /\ rxbuf = <<>> /\ lineBuf = <<>> /\ eof = FALSE
    /\ initialized = FALSE /\ rfcomm_bound = FALSE
    /\ GuiIdle
    /\ LogsIdle
    /\ DaemonIdle
    /\ FifoIdle
    /\ \E n \in 1..MaxOrderParts :
        /\ order \in Orders(n - 1)
        /\ \E c \in Cuts(Len(b64encode(srcBytes)), n) :
              script = Reordered(TransferLines(b64encode(srcBytes), c, n), order, n)

SpecReordered == InitReordered /\ [][NextTransfer]_vars

----------------------------------------------------------------------------
(* The byte stream under the reader: the device's characters reach the     *)
(* port one at a time, and readline() of a port opened with timeout=1      *)
(* returns at the newline or when no character has come for the timeout.   *)

\* the lines a device sends, and how many of them one stream carries
StreamLines == { <<"R", "T", "C", "0", "0", " ", "h", "i">>, <<"R", "T", "C", "0", "2", " ", "o", "k">>, <<"h", "e", "l", "l", "o">> }
MaxStreamLines == 2

\* the characters of the lines ls, each line closed by its newline
RECURSIVE Flatten(_)
Flatten(ls) ==
    IF ls = <<>> THEN <<>> ELSE Head(ls) \o <<"\n">> \o Flatten(Tail(ls))

\* the port is open and the reader thread is in its loop; script keeps the
\* lines the device sends
InitStream ==
    /\ variant = "pyserial"
    /\ ser = "open"
    /\ running = TRUE
    /\ connected = FALSE
    /\ waiting_for_image = FALSE
    /\ image_metadata = EmptyDict
    /\ image_parts = EmptyDict
    /\ expected_parts = 0
    /\ rdPc = "loop"
    /\ exitCause = "none"
    /\ raw = <<>>
    /\ line = <<>>
    /\ shown = <<>>
    /\ pend = <<>>
    /\ sent = <<>>
    /\ decoded = <<>>
    /\ reported = FALSE
    /\ mainPc = "run"
    /\ mainMsg = <<>>
    /\ sendResult = <<>>
    /\ orphan = "none"
    /\ script \in SeqsUpTo(StreamLines, MaxStreamLines) \ {<<>>}
    /\ srcBytes = <<>>
    /\ padded = TRUE
    /\ order = <<>>
    /\ wire = Flatten(script)
    /\ rxbuf = <<>>
    /\ lineBuf = <<>>
    /\ eof = FALSE
    /\ initialized = FALSE /\ rfcomm_bound = FALSE
    /\ GuiIdle
    /\ LogsIdle
    /\ DaemonIdle
    /\ FifoIdle

\* one more character of the device reaches the port
Arrive ==
    /\ wire # <<>>
    /\ rxbuf' = Append(rxbuf, Head(wire))
    /\ wire' = Tail(wire)
    /\ UNCHANGED <<variant, ser, running, connected, session, rdPc, exitCause, raw, line,
                   shown, pend, sent, decoded, reported, mainPc, mainMsg, sendResult,
                   orphan, script, srcBytes, padded, order, fifo, daemon, logs, lineBuf, eof, module, gui>>

\* _reader_loop: "if self.ser.in_waiting > 0:" is true, readline() is entered
ReaderPoll ==
    /\ rdPc = "loop"
    /\ running /\ ser = "open"
    /\ rxbuf # <<>>
    /\ rdPc' = "readline"
    /\ lineBuf' = <<>>
    /\ UNCHANGED <<variant, ser, running, connected, session, exitCause, raw, line,
                   shown, pend, sent, decoded, reported, mainPc, mainMsg, sendResult,
                   orphan, script, srcBytes, padded, order, fifo, daemon, logs, wire, rxbuf, eof, module, gui>>

\* readline() returns r: line = r.decode('utf-8', errors='ignore').strip(),
\* and "if line:" sends an empty line back to the top of the loop
ReadlineReturns(r) ==
    /\ raw' = r
    /\ line' = Strip(r)
    /\ rdPc' = IF Strip(r) = <<>> THEN "loop" ELSE "process"
    /\ lineBuf' = <<>>
    /\ shown' = <<>>
    /\ sent' = <<>>
    /\ decoded' = <<>>
    /\ reported' = FALSE

\* readline() takes the next character; the newline ends the call
ReadlineByte ==
    /\ rdPc = "readline"
    /\ rxbuf # <<>>
    /\ rxbuf' = Tail(rxbuf)
    /\ IF Head(rxbuf) = "\n"
       THEN ReadlineReturns(Append(lineBuf, Head(rxbuf)))
       ELSE /\ lineBuf' = Append(lineBuf, Head(rxbuf))
            /\ UNCHANGED <<rdPc, raw, line, shown, sent, decoded, reported>>
    /\ UNCHANGED <<variant, ser, running, connected, session, exitCause, pend, mainPc,
                   mainMsg, sendResult, orphan, script, srcBytes, padded, order, fifo, daemon, logs, wire, eof,
                   module, gui>>

\* no character has come for the port's timeout (1 s): readline() returns what
\* it has collected
ReadlineTimeout ==
    /\ rdPc = "readline"
    /\ rxbuf = <<>>
    /\ ReadlineReturns(lineBuf)
    /\ UNCHANGED <<variant, ser, running, connected, session, exitCause, pend, mainPc,
                   mainMsg, sendResult, orphan, script, srcBytes, padded, order, fifo, daemon, logs, wire,
                   rxbuf, eof, module, gui>>

NextStream ==
    \/ Arrive
    \/ ReaderPoll
    \/ ReadlineByte
    \/ ReadlineTimeout
    \/ ReaderProcess
    \/ ReaderWriteDone

SpecStream == InitStream /\ [][NextStream]_vars

----------------------------------------------------------------------------
(* SmartBinSimpleProtocol: the reader thread reads the stdout pipe of a     *)
(* "cat /dev/rfcomm0" process with a blocking readline().  script holds     *)
(* the lines still in the pipe, eof tells that the process has ended.       *)
(* SmartBinCommunicationSystem._reader_loop (Recycle Bin/smartbin_unified   *)
(* .py) has the same shape with read(1) in the place of readline().         *)

\* start(): the process runs, the flag is set, the reader thread is started
InitEof ==
    /\ variant = "simple"
    /\ ser = "open"
    /\ running = TRUE
    /\ connected = FALSE
    /\ waiting_for_image = FALSE
    /\ image_metadata = EmptyDict
    /\ image_parts = EmptyDict
    /\ expected_parts = 0
    /\ rdPc = "loop"
    /\ exitCause = "none"
    /\ raw = <<>>
    /\ line = <<>>
    /\ shown = <<>>
    /\ pend = <<>>
    /\ sent = <<>>
    /\ decoded = <<>>
    /\ reported = FALSE
    /\ mainPc = "run"
    /\ mainMsg = <<>>
    /\ sendResult = <<>>
    /\ orphan = "none"
    /\ script \in SeqsUpTo(StreamLines, MaxStreamLines)
    /\ srcBytes = <<>>
    /\ padded = TRUE
    /\ order = <<>>
    /\ wire = <<>>
    /\ rxbuf = <<>>
    /\ lineBuf = <<>>
    /\ eof = FALSE
    /\ initialized = FALSE /\ rfcomm_bound = FALSE
    /\ GuiIdle
    /\ LogsIdle
    /\ DaemonIdle
    /\ FifoIdle

\* _reader_loop: "while self.running and self.read_process" holds and the
\* thread enters self.read_process.stdout.readline()
SimpleRead ==
    /\ rdPc = "loop"
    /\ running /\ ser = "open"
    /\ rdPc' = "readline"
    /\ UNCHANGED <<variant, ser, running, connected, session, exitCause, raw, line,
                   shown, pend, sent, decoded, reported, mainPc, mainMsg, sendResult,
                   orphan, harness>>

\* readline() returns a line of the pipe; stripped and not empty it is put
\* into message_queue, and the loop goes on
SimpleReadLine ==
    /\ rdPc = "readline"
    /\ script # <<>>
    /\ raw' = Head(script) \o <<"\n">>
    /\ line' = Strip(Head(script))
    /\ script' = Tail(script)
    /\ IF Strip(Head(script)) # <<>>
       THEN /\ message_queue' = Append(message_queue, Strip(Head(script)))
            /\ taken' = Append(taken, Strip(Head(script)))
       ELSE UNCHANGED <<message_queue, taken>>
    /\ rdPc' = "loop"
    /\ UNCHANGED <<variant, ser, running, connected, session, exitCause, shown, pend,
                   sent, decoded, reported, mainPc, mainMsg, sendResult, orphan,
                   srcBytes, padded, order, handled, sock, daemonPc, sockWrites, logs,
                   stream, module, gui>>

\* readline() returns '' at the end of the pipe: "if not line: continue"
SimpleReadEof ==
    /\ rdPc = "readline"
    /\ script = <<>>
    /\ eof
    /\ raw' = <<>>
    /\ rdPc' = "loop"
    /\ UNCHANGED <<variant, ser, running, connected, session, exitCause, line, shown,
                   pend, sent, decoded, reported, mainPc, mainMsg, sendResult, orphan,
                   harness>>

\* the process behind the pipe ends (the link has dropped): what it wrote
\* stays readable, then the pipe is at EOF
PipeEof ==
    /\ ~eof
    /\ eof' = TRUE
    /\ UNCHANGED <<variant, ser, running, connected, session, rdPc, exitCause, raw, line,
                   shown, pend, sent, decoded, reported, mainPc, mainMsg, sendResult,
                   orphan, script, srcBytes, padded, order, fifo, daemon, logs, wire, rxbuf, lineBuf, module, gui>>

\* SmartBinSimpleProtocol.stop(): reader_thread.join(timeout=2) has returned,
\* the reader having ended or being blocked in readline() on a silent pipe;
\* then _cleanup_rfcomm() terminates the process and drops read_process
SimpleStopFinish ==
    /\ mainPc = "join"
    /\ \/ rdPc = "stopped"
       \/ rdPc = "readline" /\ script = <<>> /\ ~eof
    /\ ser' = "closed"
    /\ eof' = TRUE
    /\ mainPc' = "done"
    /\ UNCHANGED <<variant, running, connected, session, rdPc, exitCause, raw, line, shown,
                   pend, sent, decoded, reported, mainMsg, sendResult, orphan, script,
                   srcBytes, padded, order, fifo, daemon, logs, wire, rxbuf, lineBuf, module, gui>>

NextEof ==
    \/ SimpleRead
    \/ SimpleReadLine
    \/ SimpleReadEof
    \/ PipeEof
    \/ ReaderExit
    \/ StopBegin
    \/ SimpleStopFinish

SpecEof == InitEof /\ [][NextEof]_vars

\* the reader thread is scheduled, a readline() that can return returns, and
\* a join that can return returns; nothing makes the operator call stop()
FairSpecEof ==
    /\ SpecEof
    /\ WF_vars(SimpleRead)
    /\ WF_vars(SimpleReadLine)
    /\ WF_vars(SimpleReadEof)
    /\ WF_vars(ReaderExit)
    /\ WF_vars(SimpleStopFinish)

----------------------------------------------------------------------------
(* BluetoothModule from init() to stop(): the commands of the main thread  *)
(* (init, connect, disconnect, stop) with the reader thread of the         *)
(* connection.  mainPc is "new" before init(), "run" between commands of   *)
(* an initialised module, "join" / "stopjoin" inside the join of           *)
(* disconnect() / of the disconnect() that stop() calls, "done" once       *)
(* stop() has returned.                                                    *)

InitModule ==
    /\ variant = "module"
    /\ ser = "none"
    /\ running = FALSE
    /\ connected = FALSE
    /\ waiting_for_image = FALSE
    /\ image_metadata = EmptyDict
    /\ image_parts = EmptyDict
    /\ expected_parts = 0
    /\ rdPc = "none"
    /\ exitCause = "none"
    /\ raw = <<>>
    /\ line = <<>>
    /\ shown = <<>>
    /\ pend = <<>>
    /\ sent = <<>>
    /\ decoded = <<>>
    /\ reported = FALSE
    /\ mainPc = "new"
    /\ mainMsg = <<>>
    /\ sendResult = <<>>
    /\ orphan = "none"
    /\ script = <<>>
    /\ srcBytes = <<>>
    /\ padded = TRUE
    /\ order = <<>>
    /\ wire = <<>> /\ rxbuf = <<>> /\ lineBuf = <<>> /\ eof = FALSE
    /\ initialized = FALSE
    /\ rfcomm_bound = FALSE
    /\ GuiIdle
    /\ LogsIdle
    /\ DaemonIdle
    /\ FifoIdle

\* BluetoothModule.init() on a module that is not initialised
ModInit ==
    /\ mainPc \in {"new", "done"}
    /\ ~initialized
    /\ initialized' = TRUE
    /\ mainPc' = "run"
    /\ UNCHANGED <<variant, ser, running, connected, session, rdPc, exitCause, raw, line,
                   shown, pend, sent, decoded, reported, mainMsg, sendResult, orphan,
                   script, srcBytes, padded, order, fifo, daemon, logs, stream, rfcomm_bound, gui>>

\* what connect() can meet: both set-up steps succeed, the binding fails, or
\* the binding succeeds and the port cannot be opened
ConnectOutcomes == {"ok", "bindfails", "serialfails"}

\* BluetoothModule.connect() on an initialised module that is not connected
ModConnect ==
    /\ mainPc = "run"
    /\ initialized
    /\ ~connected
    /\ \E outcome \in ConnectOutcomes :
        IF outcome = "ok"
        THEN /\ rfcomm_bound' = TRUE
             /\ ser' = "open"
             /\ running' = TRUE
             /\ rdPc' = "loop"
             /\ exitCause' = "none"
             /\ connected' = TRUE
             /\ orphan' = IF rdPc \in {"none", "stopped"} THEN orphan ELSE "shared"
        ELSE IF outcome = "serialfails"
        THEN /\ rfcomm_bound' = FALSE       \* bound, then _cleanup_rfcomm_binding
             /\ UNCHANGED <<ser, running, rdPc, exitCause, connected, orphan>>
        ELSE UNCHANGED <<rfcomm_bound, ser, running, rdPc, exitCause, connected, orphan>>
    /\ UNCHANGED <<variant, session, raw, line, shown, pend, sent, decoded, reported,
                   mainPc, mainMsg, sendResult, script, srcBytes, padded, order, fifo, daemon, logs, stream,
                   initialized, gui>>

\* _cleanup_connection after its join: _cleanup_serial and _cleanup_rfcomm_binding
CleanupSerialAndBinding ==
    /\ ser' = IF ser = "open" THEN "closed" ELSE ser
    /\ rfcomm_bound' = FALSE

\* disconnect() called by the main thread: the join has returned, the port is
\* closed and the binding released, and the call returns
ModDisconnectFinish ==
    /\ mainPc = "join"
    /\ rdPc \in {"none", "stopped"}
    /\ CleanupSerialAndBinding
    /\ mainPc' = "run"
    /\ UNCHANGED <<variant, running, connected, session, rdPc, exitCause, raw, line,
                   shown, pend, sent, decoded, reported, mainMsg, sendResult, orphan,
                   script, srcBytes, padded, order, fifo, daemon, logs, stream, initialized, gui>>

\* stop() on an initialised module: "if _connected: disconnect()" begins, or
\* there is nothing to disconnect and the module is marked uninitialised
ModStopBegin ==
    /\ mainPc = "run"
    /\ initialized
    /\ IF connected
       THEN /\ running' = FALSE
            /\ connected' = FALSE
            /\ mainPc' = "stopjoin"
            /\ UNCHANGED initialized
       ELSE /\ initialized' = FALSE
            /\ mainPc' = "done"
            /\ UNCHANGED <<running, connected>>
    /\ UNCHANGED <<variant, ser, session, rdPc, exitCause, raw, line, shown, pend, sent,
                   decoded, reported, mainMsg, sendResult, orphan, script, srcBytes,
                   padded, order, fifo, daemon, logs, stream, rfcomm_bound, gui>>

\* stop(): the disconnect() it called has returned, _initialized is cleared
ModStopFinish ==
    /\ mainPc = "stopjoin"
    /\ rdPc \in {"none", "stopped"}
    /\ CleanupSerialAndBinding
    /\ initialized' = FALSE
    /\ mainPc' = "done"
    /\ UNCHANGED <<variant, running, connected, session, rdPc, exitCause, raw, line,
                   shown, pend, sent, decoded, reported, mainMsg, sendResult, orphan,
                   script, srcBytes, padded, order, fifo, daemon, logs, stream, gui>>

NextModule ==
    \/ ModInit
    \/ ModConnect
    \/ ReaderRead
    \/ ReaderIOError
    \/ ReaderExit
    \/ ReaderDisconnect
    \/ ReaderProcess
    \/ ReaderWriteDone
    \/ StopBegin
    \/ ModDisconnectFinish
    \/ ModStopBegin
    \/ ModStopFinish

SpecModule == InitModule /\ [][NextModule]_vars

----------------------------------------------------------------------------
(* SmartBinGUI: connection monitoring and automatic reconnection.  One     *)
(* scheduled call of _attempt_reconnection (root.after) is followed at a   *)
(* time; timer counts its seconds down.                                    *)

max_reconnect_interval == 30

\* attempts followed before the model stops scheduling further ones
MaxAttempts == 7

Min(a, b) == IF a < b THEN a ELSE b

\* delay = min(2 ** min(self.reconnect_attempts - 1, 4), self.max_reconnect_interval)
ReconnectDelay(n) == Min(2 ^ Min(n - 1, 4), max_reconnect_interval)

\* the other fields keep the values the window's steps never touch
InitReconnect ==
    /\ variant = "gui"
    /\ ser = "none"
    /\ running = FALSE
    /\ connected = FALSE
    /\ waiting_for_image = FALSE
    /\ image_metadata = EmptyDict
    /\ image_parts = EmptyDict
    /\ expected_parts = 0
    /\ rdPc = "none"
    /\ exitCause = "none"
    /\ raw = <<>>
    /\ line = <<>>
    /\ shown = <<>>
    /\ pend = <<>>
    /\ sent = <<>>
    /\ decoded = <<>>
    /\ reported = FALSE
    /\ mainPc = "new"
    /\ mainMsg = <<>>
    /\ sendResult = <<>>
    /\ orphan = "none"
    /\ script = <<>>
    /\ srcBytes = <<>>
    /\ padded = TRUE
    /\ order = <<>>
    /\ wire = <<>> /\ rxbuf = <<>> /\ lineBuf = <<>> /\ eof = FALSE
    /\ initialized = FALSE /\ rfcomm_bound = FALSE
    /\ GuiIdle
    /\ LogsIdle
    /\ DaemonIdle
    /\ FifoIdle

\* what the steps of the window leave alone
NotTheWindow ==
    UNCHANGED <<variant, ser, running, connected, session, rdPc, exitCause, raw, line,
                shown, pend, sent, decoded, reported, mainPc, mainMsg, sendResult, orphan,
                script, srcBytes, padded, order, fifo, daemon, logs, stream, module>>

\* _connect and, in the protocol thread, _run_protocol: protocol.start()
\* succeeds or fails
GuiConnect ==
    /\ ~gui_running
    /\ timer = -1
    /\ auto_reconnect' = TRUE
    /\ reconnect_attempts' = 0
    /\ \E success \in BOOLEAN :
        /\ gui_running' = success
        /\ gui_connected' = success
    /\ UNCHANGED <<delay, timer>>
    /\ NotTheWindow

\* _disconnect
GuiDisconnect ==
    /\ gui_running
    /\ gui_running' = FALSE
    /\ gui_connected' = FALSE
    /\ auto_reconnect' = FALSE
    /\ reconnect_attempts' = 0
    /\ UNCHANGED <<delay, timer>>
    /\ NotTheWindow

\* _toggle_auto_reconnect
GuiToggleAutoReconnect ==
    /\ auto_reconnect' = ~auto_reconnect
    /\ UNCHANGED <<gui_running, gui_connected, reconnect_attempts, delay, timer>>
    /\ NotTheWindow

\* _attempt_reconnection past its guard, the counter being n - 1: the counter
\* is raised, the delay computed, and protocol.start() succeeds or fails
Attempt(n) ==
    /\ delay' = ReconnectDelay(n)
    /\ \E success \in BOOLEAN :
        IF success
        THEN /\ gui_connected' = TRUE
             /\ reconnect_attempts' = 0
             /\ timer' = -1
        ELSE /\ gui_connected' = FALSE
             /\ reconnect_attempts' = n
             /\ timer' = ReconnectDelay(n)

\* _monitor_connection finds the protocol gone: _handle_disconnection, which
\* with auto_reconnect set makes the first attempt at once
GuiConnectionLost ==
    /\ gui_running /\ gui_connected
    /\ timer = -1
    /\ IF auto_reconnect
       THEN Attempt(1)
       ELSE /\ gui_connected' = FALSE
            /\ UNCHANGED <<reconnect_attempts, delay, timer>>
    /\ UNCHANGED <<gui_running, auto_reconnect>>
    /\ NotTheWindow

\* a second of the scheduled delay passes
GuiTick ==
    /\ timer > 0
    /\ timer' = timer - 1
    /\ UNCHANGED <<gui_running, gui_connected, auto_reconnect, reconnect_attempts, delay>>
    /\ NotTheWindow

\* the scheduled _attempt_reconnection runs
GuiTimerFires ==
    /\ timer = 0
    /\ reconnect_attempts < MaxAttempts
    /\ IF ~gui_running \/ gui_connected \/ ~auto_reconnect
       THEN /\ timer' = -1
            /\ UNCHANGED <<gui_connected, reconnect_attempts, delay>>
       ELSE Attempt(reconnect_attempts + 1)
    /\ UNCHANGED <<gui_running, auto_reconnect>>
    /\ NotTheWindow

NextReconnect ==
    \/ GuiConnect
    \/ GuiDisconnect
    \/ GuiToggleAutoReconnect
    \/ GuiConnectionLost
    \/ GuiTick
    \/ GuiTimerFires

SpecReconnect == InitReconnect /\ [][NextReconnect]_vars

----------------------------------------------------------------------------
(* Encoder against classifier: the line _send_message writes for a code    *)
(* and a payload is handed, without its newline, to _process_line.         *)
(* script holds the pair <<code, payload>>.                                *)

\* the codes of Heads the classifier accepts
AcceptedCodes == { h \in Heads : _is_protocol_message(h \o <<" ", "x">>) }

Payloads == Tails \cup { <<"h", "i">> }

InitRoundTrip ==
    /\ variant \in Variants
    /\ ser = "open"
    /\ running = TRUE
    /\ connected = FALSE
    /\ waiting_for_image = FALSE
    /\ image_metadata = EmptyDict
    /\ image_parts = EmptyDict
    /\ expected_parts = 0
    /\ rdPc = "loop"
    /\ exitCause = "none"
    /\ raw = <<>>
    /\ line = <<>>
    /\ shown = <<>>
    /\ pend = <<>>
    /\ sent = <<>>
    /\ decoded = <<>>
    /\ reported = FALSE
    /\ mainPc = "run"
    /\ mainMsg = <<>>
    /\ sendResult = <<>>
    /\ orphan = "none"
    /\ script \in AcceptedCodes \X Payloads
    /\ srcBytes = <<>>
    /\ padded = TRUE
    /\ order = <<>>
    /\ wire = <<>> /\ rxbuf = <<>> /\ lineBuf = <<>> /\ eof = FALSE
    /\ initialized = FALSE /\ rfcomm_bound = FALSE
    /\ GuiIdle
    /\ LogsIdle
    /\ DaemonIdle
    /\ FifoIdle

\* _send_message(code, payload) on the open port: the line is built, written
\* and flushed, and True is returned
SendFrame ==
    /\ mainPc = "run"
    /\ ser = "open"
    /\ sent = <<>>
    /\ sent' = <<Written("main", FormatMessage(script[1], script[2]))>>
    /\ sendResult' = <<TRUE>>
    /\ mainPc' = "done"
    /\ UNCHANGED <<variant, ser, running, connected, session, rdPc, exitCause, raw, line,
                   shown, pend, decoded, reported, mainMsg, orphan, harness>>

\* the written line, its terminating newline removed, reaches _process_line
ReceiveSent ==
    /\ rdPc = "loop"
    /\ mainPc = "done"
    /\ raw = <<>>
    /\ raw' = sent[1].data
    /\ line' = SubSeq(sent[1].data, 1, Len(sent[1].data) - 1)
    /\ rdPc' = "process"
    /\ UNCHANGED <<variant, ser, running, connected, session, exitCause, shown, pend, sent,
                   decoded, reported, mainPc, mainMsg, sendResult, orphan, harness>>

NextRoundTrip ==
    \/ SendFrame
    \/ ReceiveSent
    \/ ReaderProcess
    \/ ReaderWriteDone

SpecRoundTrip == InitRoundTrip /\ [][NextRoundTrip]_vars

----------------------------------------------------------------------------
(* The Bluetooth buffer: the reader thread appends the lines that are not  *)
(* protocol messages, the command thread hands the buffer out and empties  *)
(* it.  No lock guards the list.                                           *)

\* lines the device logs, and how many of them one run carries
LogLines == { <<"h", "e", "l", "l", "o">>, <<" ", "b", "o", "o", "t", " ", "o", "k">>, <<"R", "T", "C", "0">> }
MaxLogLines == 3

\* the sequences of at most n different elements of S
NoRepeat(S, n) ==
    { q \in SeqsUpTo(S, n) : \A i, j \in 1..Len(q) : q[i] = q[j] => i = j }

\* bluetooth is initialised and connected, the reader thread is in its loop;
\* script keeps the lines the device still has to send
InitBuffer ==
    /\ variant \in {"engine", "module"}
    /\ ser = "open"
    /\ running = TRUE
    /\ connected = TRUE
    /\ waiting_for_image = FALSE
    /\ image_metadata = EmptyDict
    /\ image_parts = EmptyDict
    /\ expected_parts = 0
    /\ rdPc = "loop"
    /\ exitCause = "none"
    /\ raw = <<>>
    /\ line = <<>>
    /\ shown = <<>>
    /\ pend = <<>>
    /\ sent = <<>>
    /\ decoded = <<>>
    /\ reported = FALSE
    /\ mainPc = "run"
    /\ mainMsg = <<>>
    /\ sendResult = <<>>
    /\ orphan = "none"
    /\ script \in NoRepeat(LogLines, MaxLogLines)
    /\ srcBytes = <<>>
    /\ padded = TRUE
    /\ order = <<>>
    /\ wire = <<>> /\ rxbuf = <<>> /\ lineBuf = <<>> /\ eof = FALSE
    /\ initialized = TRUE
    /\ rfcomm_bound = TRUE
    /\ GuiIdle
    /\ LogsIdle
    /\ DaemonIdle
    /\ FifoIdle

\* one pass of _bluetooth_reader_loop that reads a line, and
\* _process_bluetooth_line on it when it is not a protocol message
ReaderLogLine ==
    /\ rdPc = "loop"
    /\ running
    /\ ser = "open"
    /\ script # <<>>
    /\ ~_is_protocol_message(Strip(Head(script)))
    /\ raw' = Head(script)
    /\ line' = Strip(Head(script))
    /\ script' = Tail(script)
    /\ IF Strip(Head(script)) # <<>>
       THEN /\ buffer' = Append(buffer, Strip(Head(script)))
            /\ logged' = Append(logged, Strip(Head(script)))
       ELSE UNCHANGED <<buffer, logged>>
    /\ UNCHANGED <<variant, ser, running, connected, session, rdPc, exitCause, shown,
                   pend, sent, decoded, reported, mainPc, mainMsg, sendResult, orphan,
                   srcBytes, padded, order, fifo, daemon, stream, module, gui, buffer_copy, got>>

\* BluetoothModule.get_buffer: buffer_copy = _buffer.copy();
\* handle_bluetooth_get_buffer: "\n".join(state.bluetooth_buffer) when the
\* buffer is not empty, the empty answer otherwise
GetBufferCopy ==
    /\ mainPc = "run"
    /\ buffer_copy = <<>>
    /\ variant = "engine" => initialized
    /\ IF variant = "engine" /\ buffer = <<>>
       THEN UNCHANGED buffer_copy
       ELSE buffer_copy' = <<buffer>>
    /\ UNCHANGED <<variant, ser, running, connected, session, rdPc, exitCause, raw,
                   line, shown, pend, sent, decoded, reported, mainPc, mainMsg,
                   sendResult, orphan, script, srcBytes, padded, order, fifo, daemon, stream, module,
                   gui, buffer, got, logged>>

\* _buffer.clear() / state.bluetooth_buffer.clear(), and the copy is returned
GetBufferClear ==
    /\ buffer_copy # <<>>
    /\ buffer' = <<>>
    /\ got' = got \o buffer_copy[1]
    /\ buffer_copy' = <<>>
    /\ UNCHANGED <<variant, ser, running, connected, session, rdPc, exitCause, raw,
                   line, shown, pend, sent, decoded, reported, mainPc, mainMsg,
                   sendResult, orphan, script, srcBytes, padded, order, fifo, daemon, stream, module,
                   gui, logged>>

NextBuffer ==
    \/ ReaderLogLine
    \/ GetBufferCopy
    \/ GetBufferClear

SpecBuffer == InitBuffer /\ [][NextBuffer]_vars

----------------------------------------------------------------------------
(* SmartBinDaemon (smartbin_laptop_daemon.py): the communication thread    *)
(* connects and receives, the processing thread answers the messages       *)
(* queued, the main thread sends heartbeats.  All three call               *)
(* _send_message and _handle_disconnection on the same fields; the file    *)
(* holds no lock.  daemonPc[t] is "loop" (the thread's own loop),          *)
(* "send1".."send3" (_send_message: the write to make next),               *)
(* "disc1".."disc3" (_handle_disconnection: the statement to run next),    *)
(* "connect" (the socket made, connect() ahead), "done".                   *)

\* message types _process_incoming_data can queue
MessageTypes == {"WAITING_LAPTOP", "IMAGE_DATA", "STATUS_UPDATE"}

\* messages the queue holds at most, and messages begun on one socket at most
MaxQueue == 1
MaxMessages == 2

\* start(): running set, both threads started, the caller in _main_loop
InitDaemon ==
    /\ variant = "daemon"
    /\ ser = "none"
    /\ running = TRUE
    /\ connected = FALSE
    /\ waiting_for_image = FALSE
    /\ image_metadata = EmptyDict
    /\ image_parts = EmptyDict
    /\ expected_parts = 0
    /\ rdPc = "none"
    /\ exitCause = "none"
    /\ raw = <<>>
    /\ line = <<>>
    /\ shown = <<>>
    /\ pend = <<>>
    /\ sent = <<>>
    /\ decoded = <<>>
    /\ reported = FALSE
    /\ mainPc = "new"
    /\ mainMsg = <<>>
    /\ sendResult = <<>>
    /\ orphan = "none"
    /\ script = <<>>
    /\ srcBytes = <<>>
    /\ padded = TRUE
    /\ order = <<>>
    /\ wire = <<>> /\ rxbuf = <<>> /\ lineBuf = <<>> /\ eof = FALSE
    /\ initialized = FALSE /\ rfcomm_bound = FALSE
    /\ GuiIdle
    /\ LogsIdle
    /\ sock = "none"
    /\ daemonPc = [t \in Threads |-> "loop"]
    /\ message_queue = <<>>
    /\ sockWrites = <<>>
    /\ FifoIdle

\* what no step of the daemon touches
NotTheDaemon ==
    UNCHANGED <<variant, ser, session, rdPc, exitCause, raw, line, shown, pend, sent,
                decoded, reported, mainPc, mainMsg, sendResult, orphan, script,
                srcBytes, padded, order, fifo, stream, module, gui, logs>>

\* thread t moves to position p
Goto(t, p) == daemonPc' = [daemonPc EXCEPT ![t] = p]

\* a message of the record that has its start delimiter and not yet its end
OpenMessage(w) ==
    \E i \in 1..Len(w) :
        /\ w[i].part = 1
        /\ ~\E k \in (i + 1)..Len(w) : w[k].thread = w[i].thread /\ w[k].part = 3

\* the record of the writes after the write x: it starts afresh with a start
\* delimiter written while no message of the record is open
Record(w, x) ==
    IF x.part = 1 /\ ~OpenMessage(w) THEN <<x>> ELSE Append(w, x)

\* the messages of the record, those about to be begun included
Begun ==
    Cardinality({ i \in 1..Len(sockWrites) : sockWrites[i].part = 1 })
    + Cardinality({ t \in Threads : daemonPc[t] = "send1" })

\* _send_message up to its first write: "if not self.connected or not
\* self.sock: return False", the message built
SendBegins(t) ==
    /\ connected
    /\ sock # "none"
    /\ Begun < MaxMessages
    /\ Goto(t, "send1")

\* _main_loop: connected and the heartbeat interval elapsed, _send_heartbeat
\* calls _send_message
MainHeartbeat ==
    /\ daemonPc["main"] = "loop"
    /\ running
    /\ SendBegins("main")
    /\ UNCHANGED <<running, connected, sock, message_queue, sockWrites>>
    /\ NotTheDaemon

\* _processing_loop: a message taken from the queue and _handle_message:
\* STATUS_UPDATE is printed, the other types are answered by _send_message
ProcTake ==
    /\ daemonPc["proc"] = "loop"
    /\ running
    /\ message_queue # <<>>
    /\ message_queue' = Tail(message_queue)
    /\ IF Head(message_queue) = "STATUS_UPDATE" \/ ~connected \/ sock = "none"
       THEN UNCHANGED daemonPc
       ELSE SendBegins("proc")
    /\ UNCHANGED <<running, connected, sock, sockWrites>>
    /\ NotTheDaemon

\* _communication_loop, not connected: _connect_to_esp32 makes the socket
CommSocket ==
    /\ daemonPc["comm"] = "loop"
    /\ running
    /\ ~connected
    /\ sock' = "open"
    /\ sockWrites' = <<>>
    /\ Goto("comm", "connect")
    /\ UNCHANGED <<running, connected, message_queue>>
    /\ NotTheDaemon

\* _connect_to_esp32: connect() returns and connected is set, or it raises
\* (always when the socket has been closed or dropped meanwhile): the socket
\* is closed and dropped, and the loop's handler calls _handle_disconnection
CommConnect ==
    /\ daemonPc["comm"] = "connect"
    /\ \E ok \in (IF sock = "open" THEN BOOLEAN ELSE {FALSE}) :
         IF ok
         THEN /\ connected' = TRUE
              /\ Goto("comm", "loop")
              /\ UNCHANGED sock
         ELSE /\ connected' = FALSE
              /\ sock' = "none"
              /\ Goto("comm", "disc1")
    /\ UNCHANGED <<running, message_queue, sockWrites>>
    /\ NotTheDaemon

\* _communication_loop, connected: _receive_messages.  recv() hands over a
\* message, which is queued, or a "waiting" line, which is answered by
\* _send_ready_signal, or raises BluetoothError; without a usable socket the
\* call returns (sock None, or an exception that is only printed) or raises
CommReceive ==
    /\ daemonPc["comm"] = "loop"
    /\ running
    /\ connected
    /\ IF sock = "open"
       THEN \/ \E m \in MessageTypes :
                 /\ Len(message_queue) < MaxQueue
                 /\ message_queue' = Append(message_queue, m)
                 /\ UNCHANGED daemonPc
            \/ SendBegins("comm") /\ UNCHANGED message_queue
            \/ Goto("comm", "disc1") /\ UNCHANGED message_queue
       ELSE /\ UNCHANGED message_queue
            /\ \/ UNCHANGED daemonPc
               \/ sock = "closed" /\ Goto("comm", "disc1")
    /\ UNCHANGED <<running, connected, sock, sockWrites>>
    /\ NotTheDaemon

\* _send_message: self.sock.send(...) number k of the message (start
\* delimiter, body, end delimiter); an exception (no socket any more, socket
\* closed, link lost) leads to _handle_disconnection
SendWrite(t, k) ==
    /\ daemonPc[t] = <<"send1", "send2", "send3">>[k]
    /\ \E ok \in (IF sock = "open" THEN BOOLEAN ELSE {FALSE}) :
         IF ok
         THEN /\ sockWrites' = Record(sockWrites, [thread |-> t, part |-> k])
              /\ Goto(t, <<"send2", "send3", "loop">>[k])
         ELSE /\ UNCHANGED sockWrites
              /\ Goto(t, "disc1")
    /\ UNCHANGED <<running, connected, sock, message_queue>>
    /\ NotTheDaemon

\* _handle_disconnection: self.connected = False
DisconnectFlag(t) ==
    /\ daemonPc[t] = "disc1"
    /\ connected' = FALSE
    /\ Goto(t, "disc2")
    /\ UNCHANGED <<running, sock, message_queue, sockWrites>>
    /\ NotTheDaemon

\* _handle_disconnection: "if self.sock:" and self.sock.close(); a closed
\* socket carries nothing more, its record ends
DisconnectClose(t) ==
    /\ daemonPc[t] = "disc2"
    /\ IF sock = "none"
       THEN Goto(t, "loop") /\ UNCHANGED <<sock, sockWrites>>
       ELSE Goto(t, "disc3") /\ sock' = "closed" /\ sockWrites' = <<>>
    /\ UNCHANGED <<running, connected, message_queue>>
    /\ NotTheDaemon

\* _handle_disconnection: self.sock = None, and the thread is back in its
\* loop (the communication thread after its sleep)
DisconnectDrop(t) ==
    /\ daemonPc[t] = "disc3"
    /\ sock' = "none"
    /\ Goto(t, "loop")
    /\ UNCHANGED <<running, connected, message_queue, sockWrites>>
    /\ NotTheDaemon

\* _shutdown, run by the signal handler: running cleared, the socket closed,
\* sys.exit(0) ends the process and its daemon threads
Shutdown ==
    /\ running
    /\ running' = FALSE
    /\ sock' = IF sock = "none" THEN "none" ELSE "closed"
    /\ daemonPc' = [t \in Threads |-> "done"]
    /\ sockWrites' = <<>>
    /\ UNCHANGED <<connected, message_queue>>
    /\ NotTheDaemon

NextDaemon ==
    \/ MainHeartbeat
    \/ ProcTake
    \/ CommSocket
    \/ CommConnect
    \/ CommReceive
    \/ \E t \in Threads, k \in 1..3 : SendWrite(t, k)
    \/ \E t \in Threads : DisconnectFlag(t)
    \/ \E t \in Threads : DisconnectClose(t)
    \/ \E t \in Threads : DisconnectDrop(t)
    \/ Shutdown

SpecDaemon == InitDaemon /\ [][NextDaemon]_vars

----------------------------------------------------------------------------
(* SmartBinSimpleProtocol, reader thread and main loop: the reader puts    *)
(* the lines of the pipe into message_queue (queue.Queue, first in first   *)
(* out), _main_loop takes them out and hands them to the state machine.    *)

\* lines of the pipe before readline()'s newline: a log line, a protocol
\* message that sets a field, a line with blanks around it, a blank line;
\* they reach the RTC02 branch and the print of _main_loop only
QueueLines == { <<"h", "e", "l", "l", "o">>, <<"R", "T", "C", "0", "2", " ", "o", "k">>, <<" ", "h", "i", " ">>, <<>> }
MaxQueueLines == 3

InitQueue ==
    /\ variant = "simple"
    /\ ser = "open"
    /\ running = TRUE
    /\ connected = FALSE
    /\ waiting_for_image = FALSE
    /\ image_metadata = EmptyDict
    /\ image_parts = EmptyDict
    /\ expected_parts = 0
    /\ rdPc = "loop"
    /\ exitCause = "none"
    /\ raw = <<>>
    /\ line = <<>>
    /\ shown = <<>>
    /\ pend = <<>>
    /\ sent = <<>>
    /\ decoded = <<>>
    /\ reported = FALSE
    /\ mainPc = "run"
    /\ mainMsg = <<>>
    /\ sendResult = <<>>
    /\ orphan = "none"
    /\ script \in SeqsUpTo(QueueLines, MaxQueueLines)
    /\ srcBytes = <<>>
    /\ padded = TRUE
    /\ order = <<>>
    /\ wire = <<>> /\ rxbuf = <<>> /\ lineBuf = <<>> /\ eof = FALSE
    /\ initialized = FALSE /\ rfcomm_bound = FALSE
    /\ GuiIdle
    /\ LogsIdle
    /\ DaemonIdle
    /\ FifoIdle

\* the message a LifoQueue would hand out
NextMessage_lifo(q) == q[Len(q)]

\* queue.Queue.get(): the message that was put first
NextMessage(q) == Head(q)

\* _main_loop: message_queue.get() hands over a message, which goes to
\* _handle_protocol_message when it is a protocol message (RTC02 sets
\* connected) and is printed otherwise
SimpleMainGet ==
    /\ mainPc = "run"
    /\ running
    /\ message_queue # <<>>
    /\ LET message == NextMessage(message_queue) IN
         /\ mainMsg' = message
         /\ message_queue' = Tail(message_queue)
         /\ handled' = Append(handled, message)
         /\ IF _is_protocol_message(message)
                 /\ _extract_code_content(message)[1] = <<"R", "T", "C", "0", "2">>
            THEN connected' = TRUE
            ELSE UNCHANGED connected
    /\ UNCHANGED <<variant, ser, running, session, rdPc, exitCause, raw, line, shown,
                   pend, sent, decoded, reported, mainPc, sendResult, orphan, script,
                   srcBytes, padded, order, taken, sock, daemonPc, sockWrites, logs,
                   stream, module, gui>>

NextQueue ==
    \/ SimpleRead
    \/ SimpleReadLine
    \/ SimpleReadEof
    \/ PipeEof
    \/ ReaderExit
    \/ SimpleMainGet
    \/ StopBegin
    \/ SimpleStopFinish

SpecQueue == InitQueue /\ [][NextQueue]_vars

----------------------------------------------------------------------------
(* A transfer in which one part index is sent twice: a PA frame with a     *)
(* stale payload comes before the frame (PA or PX) that carries the        *)
(* fragment of that index.                                                 *)

MaxRepeatBytes == 2
MaxRepeatParts == 2

\* a payload no fragment of an encoding of SourceBytes equals: base64 of "foo"
StalePayload == <<"Z", "m", "9", "v">>

\* the sequence q with x put in at position j
InsertAt(q, j, x) == SubSeq(q, 1, j - 1) \o <<x>> \o SubSeq(q, j, Len(q))

\* the lines ls of a transfer with a stale PA frame of index k put in at
\* position j, after PA000 and before the frame of index k
Repeated(ls, k, j) ==
    InsertAt(ls, j, PartCode(<<"P", "A">>, k) \o <<" ">> \o StalePayload)

InitRepeated ==
    /\ variant \in Variants
    /\ ser = "open"
    /\ running = TRUE
    /\ connected = FALSE
    /\ waiting_for_image = FALSE
    /\ image_metadata = EmptyDict
    /\ image_parts = EmptyDict
    /\ expected_parts = 0
    /\ rdPc = "loop"
    /\ exitCause = "none"
    /\ raw = <<>>
    /\ line = <<>>
    /\ shown = <<>>
    /\ pend = <<>>
    /\ sent = <<>>
    /\ decoded = <<>>
    /\ reported = FALSE
    /\ mainPc = "run"
    /\ mainMsg = <<>>
    /\ sendResult = <<>>
    /\ orphan = "none"
    /\ srcBytes \in SeqsUpTo(ByteSamples, MaxRepeatBytes)
    /\ padded = TRUE
    /\ wire = <<>> /\ rxbuf = <<>> /\ lineBuf = <<>> /\ eof = FALSE
    /\ initialized = FALSE /\ rfcomm_bound = FALSE
    /\ GuiIdle
    /\ LogsIdle
    /\ DaemonIdle
    /\ FifoIdle
    /\ \E n \in 1..MaxRepeatParts :
        \E k \in 1..n :
          \E j \in 2..(k + 1) :
            /\ order = InsertAt([i \in 1..(n - 1) |-> i], j - 1, k)
            /\ \E c \in Cuts(Len(b64encode(srcBytes)), n) :
                  script = Repeated(TransferLines(b64encode(srcBytes), c, n), k, j)

SpecRepeated == InitRepeated /\ [][NextTransfer]_vars

----------------------------------------------------------------------------
(* Properties.                                                             *)

\* the classification rule as the specification words it
ClaimedFrame(L) ==
    /\ Len(L) >= 6
    /\ L[6] = " "
    /\ \/ SubSeq(L, 1, 5) \in {<<"R", "T", "C", "0", "0">>, <<"R", "T", "C", "0", "1">>, <<"R", "T", "C", "0", "2">>, <<"C", "L", "S", "0", "1">>}
       \/ (L[1] = "P" /\ L[2] \in {"A", "X"})
       \/ (L[1] = "E" /\ L[2] = "R" /\ L[3] = "R")

\* the reader thread takes the step that handles its current line
ReaderHandles == rdPc = "process" /\ rdPc' # "process"

\* the reader thread takes the step that ends its write+flush
ReaderEndsWrite == rdPc = "write" /\ rdPc' # "write"

\* L is a PX frame whose suffix int() accepts, and the index it carries
IsFinalFrame(L) ==
    ClaimedFrame(L) /\ L[1] = "P" /\ L[2] = "X" /\ PyInt(SubSeq(L, 3, 5)).ok

FinalIndex(L) == PyInt(SubSeq(L, 3, 5)).val

\* the session as it stands once the PX frame L has stored its own payload
PartsWithFinal(L) == DictSet(image_parts, FinalIndex(L), SubSeq(L, 7, Len(L)))

SomePartAbsent(L) ==
    \E i \in 1..expected_parts : i \notin DOMAIN PartsWithFinal(L)

SessionIsReset ==
    /\ waiting_for_image = FALSE
    /\ image_parts = EmptyDict
    /\ image_metadata = EmptyDict
    /\ expected_parts = 0

\* C1: once _process_line has handled a line L, L was treated as a Frame exactly
\* when len(L) >= 6, L[5] is a space and L[0:5] is RTC00, RTC01, RTC02 or CLS01
\* or starts with PA, PX or ERR; the Frame's code is L[0:5] and its payload L[6:];
\* every other line was treated as a log line, shown as it is.
C1_ClassifierRule ==
    shown # <<>> =>
        IF ClaimedFrame(line)
        THEN shown[1] = [kind |-> "protocol",
                         code |-> SubSeq(line, 1, 5),
                         content |-> SubSeq(line, 7, Len(line))]
        ELSE shown[1] = [kind |-> "text", code |-> <<>>, content |-> line]

\* C1 witness: a line with a PA prefix and a non-numeric suffix was classified
\* as a Frame with a payload.
C1_Witness ==
    /\ line = <<"P", "A", "x", "y", "z", " ", "a", " ", "b">>
    /\ shown = <<[kind |-> "protocol", code |-> <<"P", "A", "x", "y", "z">>, content |-> <<"a", " ", "b">>]>>

\* every line of the script has been handled
TransferDone == script = <<>> /\ rdPc # "process"

\* C2: after PA000 with parts=N, the PA frames 1..N-1 in order and the PX frame
\* N, carrying any split into N fragments of the base64 encoding of bytes B,
\* the reassembler has decoded exactly B.
C2_RoundTrip == (TransferDone /\ padded) => decoded = <<srcBytes>>

\* C2 witness: a three-fragment transfer of three bytes has been reassembled.
C2_Witness ==
    /\ TransferDone
    /\ padded
    /\ srcBytes = <<72, 0, 255>>
    /\ SubSeq(raw, 1, 5) = <<"P", "X", "0", "0", "3">>
    /\ decoded = <<srcBytes>>

\* C3: when a PX frame is handled while some index of 1..expected_parts is
\* absent from the session, no image is decoded, handed off, saved or reported.
C3_NoImageWhenPartMissing ==
    [][ (ReaderHandles /\ IsFinalFrame(line) /\ waiting_for_image
            /\ SomePartAbsent(line))
        => (decoded' = <<>> /\ reported' = FALSE) ]_vars

\* C4: when a reassembly attempt fails (a part is missing or the base64 decode
\* raises), the reader writes an ERR0x frame to the peer, and once that write
\* has ended the session is reset.
C4_ErrorFrameAndReset ==
    [][ /\ (ReaderHandles /\ IsFinalFrame(line) /\ waiting_for_image
              /\ (\/ SomePartAbsent(line)
                  \/ ~b64decode(ConcatParts(PartsWithFinal(line), expected_parts)).ok))
           => (/\ rdPc' = "write"
               /\ pend' # <<>>
               /\ StartsWith(pend'[1].msg, <<"E", "R", "R", "0">>))
        /\ (ReaderEndsWrite /\ StartsWith(pend[1].msg, <<"E", "R", "R", "0">>))
           => (/\ sent' = Append(sent, Written("reader", pend[1].msg))
               /\ SessionIsReset') ]_vars

\* L is a PA or PX frame whose suffix int() rejects
BadSuffixFrame(L) ==
    /\ ClaimedFrame(L)
    /\ L[1] = "P" /\ L[2] \in {"A", "X"}
    /\ ~PyInt(SubSeq(L, 3, 5)).ok

\* C5: handling a PA or PX frame with a non-numeric suffix returns to the reader
\* loop without an exception, changes neither the session nor the connection
\* state and sends nothing.
C5_BadSuffixDropped ==
    [][ (ReaderHandles /\ BadSuffixFrame(line))
        => (/\ rdPc' = "loop"
            /\ UNCHANGED <<exitCause, session, connected, running, sent, pend>>) ]_vars

\* C6: the reader loop has ended only because of a transport I/O failure or
\* because stop cleared the running flag, never because of a received line.
C6_ReaderEndsOnlyOnIoOrStop ==
    rdPc = "stopped" => exitCause \in {"io", "flag"}

\* C7: with parts:2 announced and part 1 = SGVsbG8= stored, the line "PX002 "
\* (empty payload) read from the transport triggers reassembly, and the bytes
\* are b"Hello".
C7_EmptyFinalPayload ==
    [][ (/\ ReaderHandles
         /\ raw = <<"P", "X", "0", "0", "2", " ">>
         /\ waiting_for_image
         /\ expected_parts = 2
         /\ image_parts = (1 :> <<"S", "G", "V", "s", "b", "G", "8", "=">>))
        => decoded' = << <<72, 101, 108, 108, 111>> >> ]_vars

\* C8: a transfer whose payload is valid base64 without its padding, of a
\* length that is not a multiple of 4, is padded before decoding and decodes
\* to the bytes that were encoded.
C8_PaddingRepaired ==
    (/\ TransferDone
     /\ ~padded
     /\ Len(Unpadded(b64encode(srcBytes))) % 4 # 0)
    => decoded = <<srcBytes>>

RTC01Reply == <<"R", "T", "C", "0", "1", " ", "L", "a", "p", "t", "o", "p", " ", "r", "e", "a", "d", "y">>

C10_WritesMutuallyExclusive == ~(rdPc = "write" /\ mainPc = "write")

\* C11: once a transport read failure has ended the reader loop, the
\* connection state is Disconnected: connected is false.
C11_ReadFailureDisconnects ==
    (rdPc = "stopped" /\ exitCause = "io") => ~connected

\* the three characters after the two-letter prefix are decimal digits
NumericSuffix(L) == \A i \in 3..5 : IsDigit(L[i])

\* L is a PA<digits> frame other than PA000, or a PX<digits> frame
IsPartFrame(L) ==
    /\ ClaimedFrame(L)
    /\ L[1] = "P" /\ L[2] \in {"A", "X"}
    /\ NumericSuffix(L)
    /\ SubSeq(L, 1, 5) # <<"P", "A", "0", "0", "0">>

\* C12: a PA<digits> frame (not PA000) or a PX<digits> frame handled while
\* awaiting is false stores no part, triggers no reassembly, sends no frame and
\* leaves metadata, expected_parts, awaiting and the connection state unchanged.
C12_StrayPartIgnored ==
    [][ (ReaderHandles /\ IsPartFrame(line) /\ ~waiting_for_image)
        => (/\ rdPc' = "loop"
            /\ decoded' = <<>> /\ reported' = FALSE
            /\ UNCHANGED <<session, connected, running, exitCause, sent, pend>>) ]_vars

\* C12 witness: a PA001 frame has been handled while no transfer was awaited
\* (handling a PA frame never clears awaiting), and nothing was stored.
C12_Witness ==
    /\ rdPc = "loop"
    /\ shown # <<>> /\ shown[1].code = <<"P", "A", "0", "0", "1">>
    /\ ~waiting_for_image
    /\ image_parts = EmptyDict
    /\ sent = <<>>

\* C13: whatever the order in which the PA frames 1..N-1 arrive between PA000
\* and the PX frame, reassembly yields the bytes in-order arrival yields: B.
C13_OrderIndependent == TransferDone => decoded = <<srcBytes>>

\* C13 witness: part 2 was sent before part 1, the PX frame carried the last
\* two characters of "SAA=", and the two bytes have been reassembled.
C13_Witness ==
    /\ TransferDone
    /\ order = <<2, 1>>
    /\ srcBytes = <<72, 0>>
    /\ raw = <<"P", "X", "0", "0", "3", " ", "A", "=">>
    /\ decoded = <<srcBytes>>

\* L is a PX<digits> frame
IsFinalDigitsFrame(L) ==
    ClaimedFrame(L) /\ L[1] = "P" /\ L[2] = "X" /\ NumericSuffix(L)

\* C14: a PX<digits> frame handled while awaiting stores its payload at index
\* int(digits) and starts a reassembly attempt whatever that index is: either
\* the attempt has run to its end and the session is reset, or the reader is
\* inside the attempt (writing a frame the "finally" follows, or classifying)
\* with the payload stored; and whenever the reader comes back to its loop from
\* such a frame the session is reset.
C14_FinalAlwaysResets ==
    [][ /\ (ReaderHandles /\ IsFinalDigitsFrame(line) /\ waiting_for_image)
           => \/ rdPc' = "loop" /\ SessionIsReset'
              \/ /\ rdPc' \in {"write", "classify"}
                 /\ image_parts' = PartsWithFinal(line)
                 /\ rdPc' = "write" => pend'[1].then = "finally"
        /\ (/\ rdPc \in {"write", "classify"}
            /\ rdPc' = "loop"
            /\ IsFinalDigitsFrame(line))
           => SessionIsReset' ]_vars

\* C14 witness: a PX001 frame arrived while more than one part was expected;
\* the attempt was made (it reported the missing part) and the session is reset.
C14_Witness ==
    /\ rdPc = "loop"
    /\ shown # <<>> /\ shown[1].code = <<"P", "X", "0", "0", "1">>
    /\ sent = <<Written("reader", <<"E", "R", "R", "0", "2", " ", "m", "i", "s", "s", "i", "n", "g", "_", "i", "m", "a", "g", "e", "_", "p", "a", "r", "t", "s">>)>>
    /\ SessionIsReset

\* the line "PA000 parts:d" for a decimal digit d
PartsLine(d) == <<"P", "A", "0", "0", "0", " ", "p", "a", "r", "t", "s", ":">> \o <<d>>

\* C15: handling a PA000 frame whose payload carries an integer parts value,
\* in any state, leaves awaiting true, expected_parts equal to that value and
\* parts empty, so that no fragment stored earlier is left for a reassembly.
C15_MetadataStartsCleanSession ==
    [][ \A i \in 1..Len(Digits) :
          (ReaderHandles /\ line = PartsLine(Digits[i]))
          => (/\ rdPc' = "loop"
              /\ waiting_for_image'
              /\ expected_parts' = i - 1
              /\ image_parts' = EmptyDict) ]_vars

\* C15 witness: "PA000 parts:1" has been handled; one part is awaited and
\* none is stored.
C15_Witness ==
    /\ rdPc = "loop"
    /\ line = PartsLine("1")
    /\ shown # <<>> /\ shown[1].code = <<"P", "A", "0", "0", "0">>
    /\ waiting_for_image
    /\ expected_parts = 1
    /\ image_parts = EmptyDict

\* the connection is established again after a reader thread had existed
Reconnects == ~running /\ running' /\ rdPc # "none"

\* C16: once the connection has been torn down and established again the image
\* session is fresh: awaiting is false, no fragment is stored and
\* expected_parts is 0.
C16_FreshSessionAfterReconnect ==
    [][ Reconnects
        => (/\ ~waiting_for_image'
            /\ image_parts' = EmptyDict
            /\ expected_parts' = 0) ]_vars

C18_SendOnClosedPort ==
    [][ /\ ser # "open"
           => (/\ Len(sent') <= Len(sent)
               /\ rdPc' # "write"
               /\ mainPc' # "write"
               /\ sendResult' = <<TRUE>> => sendResult = <<TRUE>>
               /\ exitCause' = "exception" => exitCause = "exception")
        /\ (ser # "open" /\ rdPc = "classify" /\ rdPc' # "classify" /\ ~Reconnects)
           => (/\ sendResult' = <<FALSE>>
               /\ sent' = sent
               /\ rdPc' = "loop"
               /\ pend' = <<>>
               /\ exitCause' = exitCause) ]_vars

\* C18 witness: the port was closed by stop() while the reader was inside the
\* classifier; the reader's send of the result has returned False and nothing
\* was written.
C18_Witness ==
    /\ ser = "closed"
    /\ sendResult = <<FALSE>>
    /\ rdPc = "loop"
    /\ shown # <<>> /\ shown[1].code[1] = "P" /\ shown[1].code[2] = "X"
    /\ sent = <<>>

\* L is a log line, an ERR frame, or a frame whose code the host does not act
\* on (RTC01, CLS01)
NoEffectLine(L) ==
    \/ ~ClaimedFrame(L)
    \/ L[1] = "E" /\ L[2] = "R" /\ L[3] = "R"
    \/ SubSeq(L, 1, 5) \in {<<"R", "T", "C", "0", "1">>, <<"C", "L", "S", "0", "1">>}

\* C19: handling a log line, an ERR frame or an RTC01 / CLS01 frame leaves the
\* connection state and the image session (awaiting, parts, metadata,
\* expected_parts) unchanged and causes no outbound frame.
C19_NoEffectLines ==
    [][ (ReaderHandles /\ NoEffectLine(line))
        => (/\ rdPc' = "loop"
            /\ UNCHANGED <<session, connected, running, exitCause, sent, pend>>) ]_vars

\* C19 witness: an ERR frame has been handled while connected and in the
\* middle of an image session; nothing was sent and the session is still open.
C19_Witness ==
    /\ rdPc = "loop"
    /\ shown # <<>> /\ shown[1].code = <<"E", "R", "R", "0", "1">>
    /\ connected
    /\ waiting_for_image
    /\ image_parts # EmptyDict
    /\ sent = <<>>

\* C20: handling an RTC02 frame, in any state, sets the connection state to
\* Connected, leaves the image session unchanged and sends nothing.
C20_RTC02Connects ==
    [][ (ReaderHandles /\ ClaimedFrame(line) /\ SubSeq(line, 1, 5) = <<"R", "T", "C", "0", "2">>)
        => (/\ connected'
            /\ rdPc' = "loop"
            /\ UNCHANGED <<session, running, exitCause, sent, pend>>) ]_vars

\* C20 witness: an RTC02 frame has been handled by SmartBinPySerialProtocol in
\* the middle of an image session; the link is connected and the session open.
C20_Witness ==
    /\ variant = "pyserial"
    /\ rdPc = "loop"
    /\ shown # <<>> /\ shown[1].code = <<"R", "T", "C", "0", "2">>
    /\ connected
    /\ waiting_for_image
    /\ image_parts # EmptyDict
    /\ sent = <<>>

\* t is a decimal number: digits, one point, digits
IsDecimal(t) ==
    LET k == Find(t, ".") IN
    /\ k > 1 /\ k < Len(t)
    /\ \A i \in 1..Len(t) : i # k => IsDigit(t[i])

\* the payload of a written line: what follows the code and its space, without
\* the terminating newline
WrittenPayload(w) == SubSeq(w.data, 7, Len(w.data) - 1)

\* C21: in the GUI variant every CLS01 frame the reader writes after an image
\* was reassembled has exactly two tokens: the label recyclable or
\* non-recyclable, and a decimal confidence.
C21_BinaryResultFrame ==
    variant = "gui" =>
        \A i \in 1..Len(sent) :
            (sent[i].by = "reader" /\ StartsWith(sent[i].data, CLS01))
            => LET toks == Split(WrittenPayload(sent[i]), " ") IN
               /\ Len(toks) = 2
               /\ toks[1] \in {<<"r", "e", "c", "y", "c", "l", "a", "b", "l", "e">>, <<"n", "o", "n", "-", "r", "e", "c", "y", "c", "l", "a", "b", "l", "e">>}
               /\ IsDecimal(toks[2])

\* C22: every line handed to _process_line is a complete newline-terminated
\* line of the byte stream, also when its characters arrive slowly and the read
\* timeout elapses in the middle of the line: never a piece of a line.
C22_OnlyWholeLines ==
    rdPc = "process" => \E i \in 1..Len(script) : line = Strip(script[i])

\* a step that opens the transport: start(), handle_bluetooth_init(), connect()
OpensTransport == ser # "open" /\ ser' = "open"

\* C23: the host becomes connected only by handling an RTC02 frame received in
\* the current transport session; a step that opens the transport leaves it
\* not connected.
C23_ConnectedOnlyAfterRTC02 ==
    [][ /\ (~connected /\ connected')
           => (/\ ReaderHandles
               /\ ClaimedFrame(line)
               /\ SubSeq(line, 1, 5) = RTC02)
        /\ OpensTransport => ~connected' ]_vars

\* the pipe is at EOF: its process has ended and every line has been read
AtEof == eof /\ script = <<>>

\* C24: when the transport reaches EOF while the running flag is still set,
\* the reader loop eventually terminates instead of looping on empty reads.
C24_ReaderEndsAtEof == (AtEof /\ running /\ rdPc # "stopped") ~> (rdPc = "stopped")

\* C25: stop() clears the running flag before it joins the reader thread,
\* closes the transport only once that join has returned, and after stop()
\* the reader loop eventually exits.
C25_StopOrder ==
    /\ [](mainPc = "join" => ~running)
    /\ [][ (ser = "open" /\ ser' # "open") => (mainPc = "join" /\ mainPc' = "done") ]_vars
    /\ (mainPc = "join") ~> (rdPc = "stopped")

\* C25 witness: stop() has returned on SmartBinPySerialProtocol: the port is
\* closed and the reader thread has left its loop on the cleared flag.
C25_Witness ==
    /\ variant = "pyserial"
    /\ mainPc = "done"
    /\ ser = "closed"
    /\ ~running
    /\ rdPc = "stopped"
    /\ exitCause = "flag"

\* C26: once BluetoothModule.stop() has returned, whatever sequence of init,
\* connect, disconnect and reader-loop endings came before, the module is
\* uninitialised and not connected, the serial port is closed and the RFCOMM
\* binding is released.
C26_StopFreesEverything ==
    mainPc = "done"
    => (/\ ~initialized
        /\ ~connected
        /\ ser # "open"
        /\ ~rfcomm_bound)

\* the delays as the claim lists them: 1, 2, 4, 8, 16, 30, 30, ...
ClaimedDelay(n) == IF n <= 5 THEN 2 ^ (n - 1) ELSE 30

\* C27: the delay before reconnection attempt n follows 1, 2, 4, 8, 16, 30,
\* 30, ... seconds and never exceeds max_reconnect_interval.
C27_BackoffSequence ==
    reconnect_attempts > 0
    => (/\ delay = ClaimedDelay(reconnect_attempts)
        /\ delay <= max_reconnect_interval)

\* C28: for every code the classifier accepts and every payload, the empty one
\* included, the line written by send(code, payload), its newline removed, is
\* classified as a Frame with the same code and the same payload.
C28_SendClassifyRoundTrip ==
    shown # <<>>
    => shown[1] = [kind |-> "protocol", code |-> script[1], content |-> script[2]]

\* m is a classification result or an error frame: CLS01 ... or ERR0x ...
IsResultOrError(m) ==
    \/ StartsWith(m, CLS01)
    \/ StartsWith(m, <<"E", "R", "R", "0">>)

\* C29: every reassembly attempt (a PX frame handled while awaiting) produces
\* exactly one outbound frame, a CLS01 result or an ERR0x frame: the handler
\* either begins the write of that frame or enters the classifier whose
\* result it will send.
C29_OneFramePerAttempt ==
    [][ (ReaderHandles /\ IsFinalFrame(line) /\ waiting_for_image)
        => \/ rdPc' = "classify"
           \/ (/\ rdPc' = "write"
               /\ Len(pend') = 1
               /\ IsResultOrError(pend'[1].msg)) ]_vars

\* C30: in every reachable state, when no image is awaited the parts and the
\* metadata are empty and expected_parts is 0; so a PA000 frame either starts a
\* session completely or leaves the session state untouched.
C30_IdleSessionIsEmpty ==
    ~waiting_for_image
    => (/\ image_parts = EmptyDict
        /\ image_metadata = EmptyDict
        /\ expected_parts = 0)

\* a session is open whose PA000 payload carried no "parts" key
SessionWithoutPartsKey ==
    /\ waiting_for_image
    /\ <<"p", "a", "r", "t", "s">> \notin DOMAIN image_metadata

\* C31: while the session opened by a PA000 payload without a "parts" key is
\* awaited, no step hands off, saves or reports an image, whatever PA/PX
\* frames follow.
C31_NoImageWithoutPartsKey ==
    [][ SessionWithoutPartsKey => ~reported' ]_vars

\* C32: every line the reader thread appended to the Bluetooth buffer is
\* returned by exactly one get-buffer call or still lies in the buffer: while
\* no get-buffer call is between its copy and its clear, the lines returned so
\* far followed by the buffer are the lines appended, each once and in order.
C32_NoLineLostOrRepeated ==
    buffer_copy = <<>> => got \o buffer = logged

\* C33: in the JSON daemon, while it runs, connected = TRUE implies that sock
\* is an open socket: not None and not closed by a disconnection handler.
C33_ConnectedHasOpenSocket ==
    (variant = "daemon" /\ running /\ connected) => sock = "open"

\* the writes of thread t's message begun at position i, up to its end
\* delimiter, when that was written
MessageEnd(i) ==
    LET t == sockWrites[i].thread
        ends == { k \in (i + 1)..Len(sockWrites) :
                    sockWrites[k].thread = t /\ sockWrites[k].part = 3 }
    IN  IF ends = {} THEN 0 ELSE CHOOSE k \in ends : \A j \in ends : k <= j

\* C34: in the JSON daemon, between the start delimiter and the end delimiter
\* one thread wrote for a message, the socket carries no write of another
\* thread.
C34_MessagesNotInterleaved ==
    \A i \in 1..Len(sockWrites) :
        (sockWrites[i].part = 1 /\ MessageEnd(i) # 0)
        => \A j \in i..MessageEnd(i) : sockWrites[j].thread = sockWrites[i].thread

\* C35: in the queue-based variant, while running, the lines the main loop
\* has handed to the state machine, followed by the lines still queued, are
\* the lines the reader read, in the reader's order: none dropped, none
\* duplicated, none reordered.
C35_HandledInReadOrder ==
    (variant = "simple" /\ running) => handled \o message_queue = taken

\* two lines handled, a blank line of the pipe skipped, a third line queued
C35_Witness ==
    /\ variant = "simple"
    /\ running
    /\ handled = << <<"R", "T", "C", "0", "2", " ", "o", "k">>, <<"h", "i">> >>
    /\ message_queue = << <<"h", "e", "l", "l", "o">> >>
    /\ connected

\* the script still holds a PA or PX frame of index i
FrameOfIndexAhead(i) ==
    \E m \in 1..Len(script) :
        /\ Len(script[m]) >= 5
        /\ SubSeq(script[m], 3, 5) = SubSeq(PartCode(<<"P", "A">>, i), 3, 5)

\* C36: when a part index was sent twice in one session, first with a stale
\* payload and last with the fragment of the encoding, the bytes reassembled
\* are the source bytes, and once the last frame of an index has been handled
\* the payload stored for that index is not the stale one: the payload stored
\* is that of the last frame received and only it enters the reassembly.
C36_LastPayloadWins ==
    /\ \A i \in DOMAIN image_parts :
          (rdPc # "process" /\ ~FrameOfIndexAhead(i)) => image_parts[i] # StalePayload
    /\ TransferDone => decoded = <<srcBytes>>

\* C36 witness: PA001 came twice, first with the stale payload and then with
\* "SP", the PX frame carried "8=", and the two bytes have been reassembled.
C36_Witness ==
    /\ TransferDone
    /\ order = <<1, 1>>
    /\ srcBytes = <<72, 255>>
    /\ raw = <<"P", "X", "0", "0", "2", " ", "8", "=">>
    /\ decoded = <<srcBytes>>

====
